---- MODULE Spec2Model ----
\* Verification model of the regex matching core: Char, the input cursor,
\* the literal-prefix search, the instruction model, the NFA VM and the
\* backtracking VM.  Program counters and byte offsets are 0-based as in the
\* source; a TLA+ sequence s holds the source's s[i] at s[i+1].
EXTENDS Integers, Sequences, FiniteSets, TLC

\* ------------------------------------------------------------------ bounds
\* Longest text, in characters.
MaxLen == 3

\* Longest prefix handed to prefix_at, in characters.
MaxNeedle == 2

\* Longest prefix list handed to prefix_at.
MaxPrefixes == 2
\* Concurrent runs sharing one pool, and the runs each of them makes.
MaxThreads == 2
MaxRuns == 2
\* Characters of the text of a run compared on fresh and on used scratch.
MaxStaleLen == 2
\* Bytes of a haystack and of a needle of prefix.rs, needles in a list.
MaxHay == 4
MaxFindNeedle == 2
MaxNeedles == 2
\* Characters of a text on which at and previous_at are called.
MaxCursorLen == 3
MaxBody == 2
MaxExtractLen == 2
MaxRanges == 5

\* ------------------------------------------------------------ Option<usize>
\* Option::None for a byte offset or a capture slot.
None == -1

\* ---------------------------------------------------------------- char.rs
\* Char(u32::MAX), the "no character" sentinel.  TLC integers are 32-bit
\* signed, so the sentinel is the largest of them; the code only relies on
\* it being above every scalar value (0x10FFFF).
Absent == 2147483647

NewLine == 10

is_none(c) == c = Absent

\* A length that counts the sentinel as one byte.
len_utf8_sentinel(c) ==
    IF c < 128 \/ c > 1114111 THEN 1
    ELSE IF c < 2048 THEN 2
    ELSE IF c < 65536 THEN 3
    ELSE 4

\* char::from_u32(c).map(|c| c.len_utf8()).unwrap_or(0)
len_utf8(c) ==
    IF c > 1114111 THEN 0
    ELSE IF c < 128 THEN 1
    ELSE IF c < 2048 THEN 2
    ELSE IF c < 65536 THEN 3
    ELSE 4

\* syntax::simple_case_fold on the characters of the model: an upper-case
\* ASCII letter folds to its lower-case letter; Absent stays Absent.
case_fold(c) == IF c >= 65 /\ c <= 90 THEN c + 32 ELSE c

\* An is_word_char that is true on the absent sentinel.
is_word_char_sentinel(c) ==
    \/ (c >= 48 /\ c <= 57)
    \/ (c >= 65 /\ c <= 90)
    \/ c = 95
    \/ (c >= 97 /\ c <= 122)
    \/ c = 233
    \/ c > 1114111

\* syntax::is_word_char on the characters of the model; false on Absent.
is_word_char(c) ==
    \/ (c >= 48 /\ c <= 57)
    \/ (c >= 65 /\ c <= 90)
    \/ c = 95
    \/ (c >= 97 /\ c <= 122)
    \/ c = 233

\* ------------------------------------------------------------------ UTF-8
\* The text is a sequence of bytes holding valid UTF-8, as a Rust &str.
IsContinuation(b) == b >= 128 /\ b < 192

EncodeChar(c) ==
    IF c < 128 THEN <<c>>
    ELSE IF c < 2048 THEN <<192 + (c \div 64), 128 + (c % 64)>>
    ELSE IF c < 65536
        THEN <<224 + (c \div 4096), 128 + ((c \div 64) % 64), 128 + (c % 64)>>
    ELSE <<240 + (c \div 262144), 128 + ((c \div 4096) % 64),
           128 + ((c \div 64) % 64), 128 + (c % 64)>>

RECURSIVE EncodeStr(_)
EncodeStr(cs) ==
    IF cs = <<>> THEN <<>> ELSE EncodeChar(Head(cs)) \o EncodeStr(Tail(cs))

\* text[i..].chars().next(): the scalar whose encoding starts at byte i.
DecodeAt(text, i) ==
    IF i >= Len(text) THEN Absent
    ELSE LET b0 == text[i + 1] IN
         IF b0 < 128 THEN b0
         ELSE IF b0 < 224 THEN (b0 - 192) * 64 + (text[i + 2] - 128)
         ELSE IF b0 < 240
             THEN (b0 - 224) * 4096 + (text[i + 2] - 128) * 64
                  + (text[i + 3] - 128)
         ELSE (b0 - 240) * 262144 + (text[i + 2] - 128) * 4096
              + (text[i + 3] - 128) * 64 + (text[i + 4] - 128)

\* First byte of the character that ends at byte i (i > 0).
RECURSIVE CharStartBefore(_, _)
CharStartBefore(text, i) ==
    IF i - 1 > 0 /\ IsContinuation(text[i])
        THEN CharStartBefore(text, i - 1)
        ELSE i - 1

\* text[..i].chars().rev().next()
DecodeBefore(text, i) ==
    IF i = 0 THEN Absent ELSE DecodeAt(text, CharStartBefore(text, i))

\* --------------------------------------------------------------- input.rs
InputAt(pos, c, len) == [pos |-> pos, c |-> c, len |-> len]

\* Option<InputAt>::None
NoAt == InputAt(None, Absent, 0)

is_beginning(at) == at.pos = 0

is_end(at) == is_none(at.c)

next_pos(at) == at.pos + at.len

\* CharInput::at
At(text, i) ==
    LET c == DecodeAt(text, i) IN InputAt(i, c, len_utf8(c))

\* A previous_at that steps back one byte whatever the character.
previous_at_byte(text, i) ==
    LET c == DecodeBefore(text, i)
    IN InputAt(IF i = 0 THEN 0 ELSE i - 1, c, len_utf8(c))

\* CharInput::previous_at
previous_at(text, i) ==
    LET c == DecodeBefore(text, i)
        len == len_utf8(c)
    IN InputAt(i - len, c, len)

\* &haystack[lo..hi] of a byte slice.
Slice(s, lo, hi) == SubSeq(s, lo + 1, hi)

\* The window scan of find_prefix, from window number `offset` on.
RECURSIVE find_prefix_scan(_, _, _)
find_prefix_scan(needle, haystack, offset) ==
    IF offset + Len(needle) > Len(haystack) THEN None
    ELSE IF Slice(haystack, offset, offset + Len(needle)) = needle
        THEN offset
    ELSE find_prefix_scan(needle, haystack, offset + 1)

\* find_prefix with the guard off by one: a needle as long as the haystack
\* is not searched for.
find_prefix_strict(needle, haystack) ==
    IF Len(needle) >= Len(haystack) \/ Len(needle) = 0 THEN None
    ELSE find_prefix_scan(needle, haystack, 0)

find_prefix(needle, haystack) ==
    IF Len(needle) > Len(haystack) \/ Len(needle) = 0 THEN None
    ELSE find_prefix_scan(needle, haystack, 0)

Min2(a, b) == IF a < b THEN a ELSE b

\* The body of the inner loop of find_prefixes: does needle number ni or a
\* later one compare equal to haystack[hi..ub]?
RECURSIVE find_prefixes_needles(_, _, _, _)
find_prefixes_needles(needles, haystack, hi, ni) ==
    IF ni > Len(needles) THEN FALSE
    ELSE LET needle == needles[ni]
             ub == Min2(hi + Len(needle), Len(haystack))
         IN IF Slice(haystack, hi, ub) = needle THEN TRUE
            ELSE find_prefixes_needles(needles, haystack, hi, ni + 1)

RECURSIVE find_prefixes_scan(_, _, _)
find_prefixes_scan(needles, haystack, hi) ==
    IF hi >= Len(haystack) THEN None
    ELSE IF find_prefixes_needles(needles, haystack, hi, 1) THEN hi
    ELSE find_prefixes_scan(needles, haystack, hi + 1)

find_prefixes(needles, haystack) == find_prefixes_scan(needles, haystack, 0)

\* --------------------------------------------------------------- prefix.rs
\* memchr: the index of the first byte of the haystack equal to needle.
RECURSIVE memchr_from(_, _, _)
memchr_from(needle, haystack, i) ==
    IF i >= Len(haystack) THEN None
    ELSE IF haystack[i + 1] = needle THEN i
    ELSE memchr_from(needle, haystack, i + 1)

memchr(needle, haystack) == memchr_from(needle, haystack, 0)

\* A scan that goes on a whole needle after a window that differs.
find_one_skip_needle(nlen) == nlen

\* find_one, line 23: cur += 1 after a window that differs.
find_one_skip(nlen) == 1

\* find_one, lines 16-24: the while loop, entered with cur.
RECURSIVE find_one_scan(_, _, _)
find_one_scan(needle, haystack, cur) ==
    LET i == memchr(needle[1], Slice(haystack, cur, Len(haystack)))
        at == cur + i
    IN IF i = None THEN None
       ELSE IF at + Len(needle) > Len(haystack) THEN None
       ELSE IF Slice(haystack, at, at + Len(needle)) = needle THEN at
       ELSE find_one_scan(needle, haystack, at + find_one_skip(Len(needle)))

find_one(needle, haystack) ==
    LET hlen == Len(haystack)
        nlen == Len(needle)
    IN IF nlen > hlen \/ nlen = 0 THEN None
       ELSE IF nlen = 1 THEN memchr(needle[1], haystack)
       ELSE IF nlen = hlen THEN (IF needle = haystack THEN 0 ELSE None)
       ELSE find_one_scan(needle, haystack, 0)

\* The comparison that takes the part of a needle that fits for the needle.
find_any_window_partial(needle, haystack, hi) ==
    LET ub == Min2(hi + Len(needle), Len(haystack))
    IN Slice(haystack, hi, ub) = SubSeq(needle, 1, ub - hi)

\* find_any, lines 33-36: the window at hi compared with one needle.
find_any_window(needle, haystack, hi) ==
    LET ub == Min2(hi + Len(needle), Len(haystack))
    IN Slice(haystack, hi, ub) = needle

\* find_any, lines 30-39: the loop over hi, entered with hi.
RECURSIVE find_any_scan(_, _, _)
find_any_scan(needles, haystack, hi) ==
    IF hi >= Len(haystack) THEN None
    ELSE IF \E ni \in 1..Len(needles) :
                find_any_window(needles[ni], haystack, hi) THEN hi
    ELSE find_any_scan(needles, haystack, hi + 1)

find_any(needles, haystack) == find_any_scan(needles, haystack, 0)

\* prefix_at without the base offset: the offset found in the suffix is
\* taken as an offset of the text.
prefix_at_nobase(text, prefixes, at) ==
    LET haystack == Slice(text, at.pos, Len(text))
        adv == IF Len(prefixes) = 1
                   THEN find_prefix(prefixes[1], haystack)
                   ELSE find_prefixes(prefixes, haystack)
    IN IF Len(prefixes) = 0 THEN at
       ELSE IF adv = None THEN NoAt
       ELSE At(text, adv)

\* CharInput::prefix_at
prefix_at(text, prefixes, at) ==
    LET haystack == Slice(text, at.pos, Len(text))
        adv == IF Len(prefixes) = 1
                   THEN find_prefix(prefixes[1], haystack)
                   ELSE find_prefixes(prefixes, haystack)
    IN IF Len(prefixes) = 0 THEN at
       ELSE IF adv = None THEN NoAt
       ELSE At(text, at.pos + adv)

\* ------------------------------------------------------------- program.rs
\* enum Inst, one record shape for all variants.
IMatch == [op |-> "Match", x |-> 0, y |-> 0, c |-> 0, casei |-> FALSE,
           ranges |-> <<>>, look |-> ""]
ISave(slot) == [IMatch EXCEPT !.op = "Save", !.x = slot]
IJump(to) == [IMatch EXCEPT !.op = "Jump", !.x = to]
ISplit(x, y) == [IMatch EXCEPT !.op = "Split", !.x = x, !.y = y]
IEmptyLook(kind) == [IMatch EXCEPT !.op = "EmptyLook", !.look = kind]
IChar(c, casei) == [IMatch EXCEPT !.op = "Char", !.c = c, !.casei = casei]
IRanges(ranges, casei) ==
    [IMatch EXCEPT !.op = "Ranges", !.ranges = ranges, !.casei = casei]

\* insts[pc]
InstAt(insts, pc) == insts[pc + 1]

\* Inst::is_literal
is_literal(inst) == inst.op = "Char" /\ ~inst.casei

\* OneChar::matches
OneChar_matches(inst, c) ==
    inst.c = c \/ (inst.casei /\ inst.c = case_fold(c))

\* CharRanges::any_nonl
any_nonl == <<<<0, 9>>, <<11, 1114111>>>>

\* A probe that takes the upper end of an interval as outside it.
RECURSIVE ranges_probe_open(_, _, _)
ranges_probe_open(ranges, c, i) ==
    IF i >= Min2(Len(ranges), 4) THEN [decided |-> FALSE, r |-> None]
    ELSE IF c < ranges[i + 1][1] THEN [decided |-> TRUE, r |-> None]
    ELSE IF c < ranges[i + 1][2] THEN [decided |-> TRUE, r |-> i]
    ELSE ranges_probe_open(ranges, c, i + 1)

\* The linear probe of CharRanges::matches over ranges[i..min(len, 4)]:
\* "none" / the index found / "more" when the probe decides nothing.
RECURSIVE ranges_probe(_, _, _)
ranges_probe(ranges, c, i) ==
    IF i >= Min2(Len(ranges), 4) THEN [decided |-> FALSE, r |-> None]
    ELSE IF c < ranges[i + 1][1] THEN [decided |-> TRUE, r |-> None]
    ELSE IF c <= ranges[i + 1][2] THEN [decided |-> TRUE, r |-> i]
    ELSE ranges_probe(ranges, c, i + 1)

\* slice::binary_search_by with the comparator of CharRanges::matches.
RECURSIVE ranges_bsearch(_, _, _, _)
ranges_bsearch(ranges, c, base, lim) ==
    IF lim = 0 THEN None
    ELSE LET ix == base + (lim \div 2)
             r == ranges[ix + 1]
         IN IF r[2] < c
                THEN ranges_bsearch(ranges, c, ix + 1, (lim - 1) \div 2)
            ELSE IF r[1] > c
                THEN ranges_bsearch(ranges, c, base, lim \div 2)
            ELSE ix

\* CharRanges::matches
CharRanges_matches(inst, c0) ==
    LET c == IF inst.casei THEN case_fold(c0) ELSE c0
        p == ranges_probe(inst.ranges, c, 0)
    IN IF p.decided THEN p.r
       ELSE ranges_bsearch(inst.ranges, c, 0, Len(inst.ranges))

\* An EndText that also holds before a newline, as EndLine does.
LookInst_matches_end_newline(kind, c1, c2) ==
    CASE kind = "StartLine" -> is_none(c1) \/ c1 = NewLine
      [] kind = "EndLine" -> is_none(c2) \/ c2 = NewLine
      [] kind = "StartText" -> is_none(c1)
      [] kind = "EndText" -> is_none(c2) \/ c2 = NewLine
      [] OTHER ->
            LET w1 == is_word_char(c1)
                w2 == is_word_char(c2)
            IN \/ (kind = "WordBoundary" /\ (w1 # w2))
               \/ (kind = "NotWordBoundary" /\ ~(w1 # w2))

\* LookInst::matches
LookInst_matches(kind, c1, c2) ==
    CASE kind = "StartLine" -> is_none(c1) \/ c1 = NewLine
      [] kind = "EndLine" -> is_none(c2) \/ c2 = NewLine
      [] kind = "StartText" -> is_none(c1)
      [] kind = "EndText" -> is_none(c2)
      [] OTHER ->
            LET w1 == is_word_char(c1)
                w2 == is_word_char(c2)
            IN \/ (kind = "WordBoundary" /\ (w1 # w2))
               \/ (kind = "NotWordBoundary" /\ ~(w1 # w2))

Max2(a, b) == IF a > b THEN a ELSE b

RECURSIVE num_captures_from(_, _, _)
num_captures_from(insts, i, n) ==
    IF i > Len(insts) THEN n \div 2
    ELSE num_captures_from(insts, i + 1,
            IF insts[i].op = "Save" THEN Max2(n, insts[i].x + 1) ELSE n)

\* num_captures
num_captures(insts) == num_captures_from(insts, 1, 0)

\* The nested fn prefix of Program::find_prefixes, on insts[pc..]; the
\* String is kept as its UTF-8 bytes.
RECURSIVE prefix(_, _)
prefix(insts, pc) ==
    IF pc >= Len(insts) \/ ~is_literal(InstAt(insts, pc)) THEN <<>>
    ELSE EncodeChar(InstAt(insts, pc).c) \o prefix(insts, pc + 1)

\* A give-up that leaves the prefixes collected so far.
find_prefixes_return_collected(prefixes) == prefixes

\* Program::find_prefixes, the `_ => return` arms: self.prefixes keeps the
\* vec![] of Program::new, the local prefixes are dropped.
find_prefixes_return(prefixes) == <<>>

\* The loop of Program::find_prefixes from instruction pc with the prefixes
\* collected so far: the list left in self.prefixes, how many prefixes
\* the walk had collected when it ended (seen), and whether it ended in a
\* `_ => return` arm (gaveup).  The loop's only state is
\* pc, so a walk of more than Len(insts) rounds repeats a pc and never
\* ends: done = FALSE.
RECURSIVE find_prefixes_loop(_, _, _, _)
find_prefixes_loop(insts, pc, prefixes, rounds) ==
    LET inst == InstAt(insts, pc)
        ix == InstAt(insts, inst.x)
        iy == InstAt(insts, inst.y)
        return == [done |-> TRUE, prefixes |-> find_prefixes_return(prefixes),
                   seen |-> Len(prefixes), gaveup |-> TRUE]
    IN IF rounds > Len(insts)
           THEN [done |-> FALSE, prefixes |-> <<>>, seen |-> Len(prefixes),
                 gaveup |-> FALSE]
       ELSE IF inst.op # "Split" THEN return
       ELSE IF is_literal(ix) /\ is_literal(iy)
           THEN [done |-> TRUE,
                 prefixes |-> prefixes \o
                              <<prefix(insts, inst.x), prefix(insts, inst.y)>>,
                 seen |-> Len(prefixes) + 2, gaveup |-> FALSE]
       ELSE IF is_literal(ix) /\ iy.op = "Split"
           THEN find_prefixes_loop(insts, inst.y,
                    Append(prefixes, prefix(insts, inst.x)), rounds + 1)
       ELSE IF ix.op = "Split" /\ is_literal(iy)
           THEN find_prefixes_loop(insts, inst.x,
                    Append(prefixes, prefix(insts, inst.y)), rounds + 1)
       ELSE return

\* Program::find_prefixes: the value left in self.prefixes.
Program_find_prefixes(insts) ==
    IF is_literal(InstAt(insts, 1)) THEN <<prefix(insts, 1)>>
    ELSE find_prefixes_loop(insts, 1, <<>>, 1).prefixes

\* An anchored_begin set by a StartText assertion anywhere in the program.
anchored_begin_anywhere(insts) ==
    \E pc \in 0..(Len(insts) - 1) :
        InstAt(insts, pc).op = "EmptyLook"
            /\ InstAt(insts, pc).look = "StartText"

\* Program::new: anchored_begin
anchored_begin_of(insts) ==
    InstAt(insts, 1).op = "EmptyLook" /\ InstAt(insts, 1).look = "StartText"

\* Program::new on the compiler's output.
Program_new(insts) ==
    [insts |-> insts,
     prefixes |-> Program_find_prefixes(insts),
     anchored_begin |-> anchored_begin_of(insts)]

\* Program::alloc_captures
alloc_captures(insts) == [i \in 1..(2 * num_captures(insts)) |-> None]

\* ----------------------------------------------------------------- pool.rs
\* A get that hands out the top of the stack and leaves it there.
Pool_get_peek(stack, fresh) ==
    IF stack = <<>> THEN [v |-> fresh, stack |-> stack]
    ELSE [v |-> stack[Len(stack)], stack |-> stack]

\* Pool::get on the stack: pop, or the factory's fresh object.
Pool_get(stack, fresh) ==
    IF stack = <<>> THEN [v |-> fresh, stack |-> stack]
    ELSE [v |-> stack[Len(stack)], stack |-> SubSeq(stack, 1, Len(stack) - 1)]

\* A put that drops the object.
Pool_put_drop(stack, v) == stack

\* Pool::put
Pool_put(stack, v) == Append(stack, v)

\* ------------------------------------------------- the NFA's input cursor
\* The cursor nfa.rs drives (CharInput::new(text, start), beginning, cur,
\* next, next_byte_offset, advance, advance_prefix): cur is the character
\* before the cursor, next the character at it, nbo the cursor's byte offset.
\* input.rs holds only the positional interface (at, previous_at,
\* prefix_at), so these four follow section 4.4 of the specification:
\* "creates a cursor positioned at start", "advance the cursor one
\* character", "use prefix_at to advance the cursor to the next candidate".
\* nfa.rs reads the prefixes as prog.prefix; they are Program.prefixes here.
CharInput_new(text, start) ==
    [cur |-> DecodeBefore(text, start), next |-> DecodeAt(text, start),
     nbo |-> start]

beginning(inp) == inp.nbo = 0

\* Advance the cursor one character.
advance(text, inp) ==
    LET nbo == inp.nbo + len_utf8(inp.next)
    IN [cur |-> inp.next, next |-> DecodeAt(text, nbo), nbo |-> nbo]

\* Move the cursor to the next prefix candidate; ok = FALSE when there is
\* none.
advance_prefix(text, inp, prefixes) ==
    LET at == prefix_at(text, prefixes, At(text, inp.nbo))
    IN IF at = NoAt THEN [ok |-> FALSE, inp |-> inp]
       ELSE [ok |-> TRUE, inp |-> CharInput_new(text, at.pos)]

\* ------------------------------------------------------------------ nfa.rs
\* Threads::new
Threads_new(num_insts, ncaps) ==
    [queue |-> [i \in 1..num_insts |->
                   [pc |-> 0, caps |-> [j \in 1..(ncaps * 2) |-> None]]],
     sparse |-> [i \in 1..num_insts |-> 0],
     size |-> 0]

\* NfaThreads::new
NfaThreads_new(num_insts, ncaps) ==
    [clist |-> Threads_new(num_insts, ncaps),
     nlist |-> Threads_new(num_insts, ncaps)]

\* Threads::add; the index returned is the old size.
Threads_add(t, pc) ==
    [t EXCEPT !.queue[t.size + 1].pc = pc,
              !.sparse[pc + 1] = t.size,
              !.size = t.size + 1]

\* A contains that does not see the thread at index 0 of dense.
Threads_contains_after_first(t, pc) ==
    LET s == t.sparse[pc + 1]
    IN 0 < s /\ s < t.size /\ t.queue[s + 1].pc = pc

\* A contains that trusts sparse without looking at dense.
Threads_contains_sparse(t, pc) == t.sparse[pc + 1] < t.size

\* Threads::contains
Threads_contains(t, pc) ==
    LET s == t.sparse[pc + 1]
    IN s < t.size /\ t.queue[s + 1].pc = pc

\* Threads::empty
Threads_empty(t) == [t EXCEPT !.size = 0]

\* for (slot, val) in dst.iter_mut().zip(src.iter()) { *slot = *val }
ZipCopy(dst, src) ==
    [j \in 1..Len(dst) |-> IF j <= Len(src) THEN src[j] ELSE dst[j]]

RECURSIVE Nfa_add(_, _, _, _, _)

\* The untracked Save arm that returns without following pc + 1.
Nfa_add_untracked_stop(insts, inp, nlist, pc, thread_caps) ==
    [l |-> nlist, tc |-> thread_caps, st |-> <<>>]

\* Nfa::add, the Save arm without tracking: what is done when
\* slot >= thread_caps.len().
Nfa_add_untracked(insts, inp, nlist, pc, thread_caps) ==
    Nfa_add(insts, inp, nlist, pc + 1, thread_caps)

\* The tracked Save arm saving the offset after the character at the
\* cursor instead of the cursor's offset.
Nfa_add_save_after(insts, inp, nlist, pc, thread_caps) ==
    LET slot == InstAt(insts, pc).x
        old == thread_caps[slot + 1]
        r == Nfa_add(insts, inp, nlist, pc + 1,
                     [thread_caps EXCEPT
                          ![slot + 1] = inp.nbo + len_utf8(inp.next)])
    IN [r EXCEPT !.tc[slot + 1] = old]

\* The tracked Save arm that does not put the old value back.
Nfa_add_save_kept(insts, inp, nlist, pc, thread_caps) ==
    LET slot == InstAt(insts, pc).x
    IN Nfa_add(insts, inp, nlist, pc + 1,
               [thread_caps EXCEPT ![slot + 1] = inp.nbo])

\* Nfa::add, the Save arm with tracking: save, recurse, restore.
Nfa_add_save(insts, inp, nlist, pc, thread_caps) ==
    LET slot == InstAt(insts, pc).x
        old == thread_caps[slot + 1]
        r == Nfa_add(insts, inp, nlist, pc + 1,
                     [thread_caps EXCEPT ![slot + 1] = inp.nbo])
    IN [r EXCEPT !.tc[slot + 1] = old]

\* Nfa::add: the thread list and thread_caps as the call leaves them, and
\* the pcs of the calls of add on the stack when it was deepest during the
\* call, this one first (st).
Nfa_add(insts, inp, nlist, pc, thread_caps) ==
    IF Threads_contains(nlist, pc)
        THEN [l |-> nlist, tc |-> thread_caps, st |-> <<pc>>]
    ELSE
    LET ti == nlist.size
        l1 == Threads_add(nlist, pc)
        inst == InstAt(insts, pc)
        nested(r) == [r EXCEPT !.st = <<pc>> \o @]
    IN CASE inst.op = "EmptyLook" ->
              IF LookInst_matches(inst.look, inp.cur, inp.next)
                  THEN nested(Nfa_add(insts, inp, l1, pc + 1, thread_caps))
                  ELSE [l |-> l1, tc |-> thread_caps, st |-> <<pc>>]
         [] inst.op = "Save" ->
              IF inst.x >= Len(thread_caps)
                  THEN nested(Nfa_add_untracked(insts, inp, l1, pc,
                                                thread_caps))
                  ELSE nested(Nfa_add_save(insts, inp, l1, pc, thread_caps))
         [] inst.op = "Jump" ->
              nested(Nfa_add(insts, inp, l1, inst.x, thread_caps))
         [] inst.op = "Split" ->
              LET r1 == Nfa_add(insts, inp, l1, inst.x, thread_caps)
                  r2 == Nfa_add(insts, inp, r1.l, inst.y, r1.tc)
              IN [r2 EXCEPT !.st = <<pc>> \o (IF Len(r1.st) >= Len(@)
                                                   THEN r1.st ELSE @)]
         [] OTHER ->
              [l |-> [l1 EXCEPT !.queue[ti + 1].caps = ZipCopy(@, thread_caps)],
               tc |-> thread_caps, st |-> <<pc>>]

\* Nfa::step, the Char and Ranges arms: does the instruction consume the
\* cursor's current character?
Nfa_step_consumes(inst, c) ==
    \/ (inst.op = "Char" /\ OneChar_matches(inst, c))
    \/ (inst.op = "Ranges" /\ CharRanges_matches(inst, c) # None)

\* Nfa::step reporting Continue after it copied a match: the threads of
\* lower priority are not cut.
Nfa_step_nocut(insts, inp, caps, nlist, thread_caps, pc) ==
    LET inst == InstAt(insts, pc)
    IN IF inst.op = "Match"
           THEN IF Len(caps) = 0
                    THEN [step |-> "MatchEarlyReturn", caps |-> caps,
                          nlist |-> nlist]
                    ELSE [step |-> "Continue",
                          caps |-> ZipCopy(caps, thread_caps),
                          nlist |-> nlist]
       ELSE IF Nfa_step_consumes(inst, inp.cur)
           THEN [step |-> "Continue", caps |-> caps,
                 nlist |-> Nfa_add(insts, inp, nlist, pc + 1, thread_caps).l]
       ELSE [step |-> "Continue", caps |-> caps, nlist |-> nlist]

\* Nfa::step on thread_caps of the thread at pc: the Step returned, the
\* caller's caps and nlist as the call leaves them.
Nfa_step(insts, inp, caps, nlist, thread_caps, pc) ==
    LET inst == InstAt(insts, pc)
    IN IF inst.op = "Match"
           THEN IF Len(caps) = 0
                    THEN [step |-> "MatchEarlyReturn", caps |-> caps,
                          nlist |-> nlist]
                    ELSE [step |-> "Match", caps |-> ZipCopy(caps, thread_caps),
                          nlist |-> nlist]
       ELSE IF Nfa_step_consumes(inst, inp.cur)
           THEN [step |-> "Continue", caps |-> caps,
                 nlist |-> Nfa_add(insts, inp, nlist, pc + 1, thread_caps).l]
       ELSE [step |-> "Continue", caps |-> caps, nlist |-> nlist]

\* The injection test without "no match yet".
Nfa_inject_always(size, anchored, m) == size = 0 \/ ~anchored

\* Nfa::exec, line 119: is a thread injected at pc = 0?
Nfa_inject(size, anchored, m) == size = 0 \/ (~anchored /\ ~m)

\* The end-of-text test that never ends the loop.
Nfa_at_end_never(inp) == FALSE

\* Nfa::exec, line 137: if self.input.cur().is_none() { break; }
Nfa_at_end(inp) == is_none(inp.cur)

\* ------------------------------------------------------------ backtrack.rs
\* BackMachine::new
BackMachine_new == [jobs |-> <<>>, visited |-> {}]

\* A clear that empties the jobs and keeps the visited set.
BackMachine_clear_jobs(bm) == [bm EXCEPT !.jobs = <<>>]

\* A clear that empties visited and leaves the jobs of the earlier run.
BackMachine_clear_visited(bm) == [bm EXCEPT !.visited = {}]

\* BackMachine::clear
BackMachine_clear(bm) == [jobs |-> <<>>, visited |-> {}]

\* enum Job, one record shape for all variants.
JobInst(pc, at) ==
    [kind |-> "Inst", pc |-> pc, at |-> at, slot |-> 0, old_pos |-> None]
JobSaveRestore(slot, old_pos) ==
    [kind |-> "SaveRestore", pc |-> 0, at |-> NoAt, slot |-> slot,
     old_pos |-> old_pos]
JobSplitNext(pc, at) ==
    [kind |-> "SplitNext", pc |-> pc, at |-> at, slot |-> 0, old_pos |-> None]

\* has_visited keyed by the instruction alone.
has_visited_pc(bm, pc, at) ==
    LET key == <<pc, 0>>
    IN IF key \notin bm.visited
           THEN [seen |-> FALSE, m |-> [bm EXCEPT !.visited = @ \cup {key}]]
           ELSE [seen |-> TRUE, m |-> bm]

\* Backtrack::has_visited: the answer and the machine with the key inserted.
has_visited(bm, pc, at) ==
    LET key == <<pc, at.pos>>
    IN IF key \notin bm.visited
           THEN [seen |-> FALSE, m |-> [bm EXCEPT !.visited = @ \cup {key}]]
           ELSE [seen |-> TRUE, m |-> bm]

\* A push that queues the job whether or not the pair was visited.
Bt_push_always(bm, pc, at) ==
    [has_visited(bm, pc, at).m EXCEPT !.jobs = Append(@, JobInst(pc, at))]

\* Backtrack::push
Bt_push(bm, pc, at) ==
    LET h == has_visited(bm, pc, at)
    IN IF ~h.seen THEN [h.m EXCEPT !.jobs = Append(@, JobInst(pc, at))]
       ELSE h.m

\* A push_save_restore whose job puts None back, not the old value.
push_save_restore_none(bm, slot, old_pos) ==
    [bm EXCEPT !.jobs = Append(@, JobSaveRestore(slot, None))]

\* Backtrack::push_save_restore
push_save_restore(bm, slot, old_pos) ==
    [bm EXCEPT !.jobs = Append(@, JobSaveRestore(slot, old_pos))]

\* Backtrack::push_split_next
push_split_next(bm, pc, at) ==
    [bm EXCEPT !.jobs = Append(@, JobSplitNext(pc, at))]

\* The SaveRestore arm that restores nothing.
Bt_restore_skip(caps, slot, old_pos) == caps

\* Backtrack::backtrack, the SaveRestore arm.
Bt_restore(caps, slot, old_pos) == [caps EXCEPT ![slot + 1] = old_pos]

\* The Save arm writing the byte after at.
Bt_save_value_next(at) == at.pos + 1

\* Backtrack::step, the Save arm: the value written to the slot.
Bt_save_value(at) == at.pos

\* The Split arm with the branches the other way round.
Bt_split_swapped(inst) == [now |-> inst.y, later |-> inst.x]

\* Backtrack::step, the Split arm: the branch followed now and the branch
\* left on the stack as SplitNext.
Bt_split(inst) == [now |-> inst.x, later |-> inst.y]

\* One round of the loop of Backtrack::step at (pc, at), before the
\* has_visited test that ends the round: ret is "true" or "false" when the
\* round returns, "" when it goes on with (pc, at).
Bt_step_inst(insts, text, bm, caps, pc, at) ==
    LET inst == InstAt(insts, pc)
        go(pc2, at2, bm2, caps2) ==
            [ret |-> "", pc |-> pc2, at |-> at2, m |-> bm2, caps |-> caps2]
        stop(r) == [ret |-> r, pc |-> pc, at |-> at, m |-> bm, caps |-> caps]
    IN CASE inst.op = "Match" -> stop("true")
         [] inst.op = "Save" ->
              IF inst.x < Len(caps)
                  THEN go(pc + 1, at,
                          push_save_restore(bm, inst.x, caps[inst.x + 1]),
                          [caps EXCEPT ![inst.x + 1] = Bt_save_value(at)])
                  ELSE go(pc + 1, at, bm, caps)
         [] inst.op = "Jump" -> go(inst.x, at, bm, caps)
         [] inst.op = "Split" ->
              go(Bt_split(inst).now, at,
                 push_split_next(bm, Bt_split(inst).later, at), caps)
         [] inst.op = "EmptyLook" ->
              IF LookInst_matches(inst.look, previous_at(text, at.pos).c, at.c)
                  THEN go(pc + 1, at, bm, caps)
                  ELSE stop("false")
         [] inst.op = "Char" ->
              IF OneChar_matches(inst, at.c)
                  THEN go(pc + 1, At(text, next_pos(at)), bm, caps)
                  ELSE stop("false")
         [] OTHER ->
              IF CharRanges_matches(inst, at.c) # None
                  THEN go(pc + 1, At(text, next_pos(at)), bm, caps)
                  ELSE stop("false")

\* ------------------------------------------------------------- the inputs
\* Characters of the texts: a, b and the two-byte e-acute.
Alphabet == {97, 98, 233}

A == IChar(97, FALSE)
B == IChar(98, FALSE)
E == IChar(233, FALSE)
Dot == IRanges(any_nonl, FALSE)

\* The compiler's output for a set of expressions (the compiler wraps every
\* expression in Save(0) ... Save(1), Match).
\* benches/bench.rs no_exponential: a? n times, then a n times.
NoExponential(n) ==
    <<ISave(0)>>
    \o [j \in 1..(2 * n) |-> IF j % 2 = 1 THEN ISplit(j + 1, j + 2) ELSE A]
    \o [j \in 1..n |-> A]
    \o <<ISave(1), IMatch>>

Catalogue == <<
    \* 1: a
    <<ISave(0), A, ISave(1), IMatch>>,
    \* 2: ab
    <<ISave(0), A, B, ISave(1), IMatch>>,
    \* 3: a|b
    <<ISave(0), ISplit(2, 4), A, IJump(5), B, ISave(1), IMatch>>,
    \* 4: a*
    <<ISave(0), ISplit(2, 4), A, IJump(1), ISave(1), IMatch>>,
    \* 5: a.*?b
    <<ISave(0), A, ISplit(5, 3), Dot, IJump(2), B, ISave(1), IMatch>>,
    \* 6: (a+)(b+)
    <<ISave(0), ISave(2), A, ISplit(2, 4), ISave(3), ISave(4), B,
      ISplit(6, 8), ISave(5), ISave(1), IMatch>>,
    \* 7: ^a
    <<ISave(0), IEmptyLook("StartText"), A, ISave(1), IMatch>>,
    \* 8: ^$
    <<ISave(0), IEmptyLook("StartText"), IEmptyLook("EndText"), ISave(1),
      IMatch>>,
    \* 9: .
    <<ISave(0), Dot, ISave(1), IMatch>>,
    \* 10: a(?:ab)?
    <<ISave(0), A, ISplit(3, 5), A, B, ISave(1), IMatch>>,
    \* 11: (a*)*
    <<ISave(0), ISplit(2, 8), ISave(2), ISplit(4, 6), A, IJump(3), ISave(3),
      IJump(1), ISave(1), IMatch>>,
    \* 12: a|b|e-acute
    <<ISave(0), ISplit(2, 4), A, IJump(8), ISplit(5, 7), B, IJump(8), E,
      ISave(1), IMatch>>,
    \* 13: \Ba$
    <<ISave(0), IEmptyLook("NotWordBoundary"), A, IEmptyLook("EndText"),
      ISave(1), IMatch>>,
    \* 14: (?:(a)|b)*
    <<ISave(0), ISplit(2, 9), ISplit(3, 7), ISave(2), A, ISave(3), IJump(8),
      B, IJump(1), ISave(1), IMatch>>,
    \* 15: a?b
    <<ISave(0), ISplit(2, 3), A, B, ISave(1), IMatch>>,
    \* 16: e-acute a
    <<ISave(0), E, A, ISave(1), IMatch>>,
    \* 17: a?a?aa
    NoExponential(2),
    \* 18: a?a?a?aaa
    NoExponential(3)
>>

\* Two expressions searched on chosen texts only, with characters outside
\* Alphabet: ^abc|def$ and the multi-line ^$.
Examples == <<
    \* 19: ^abc|def$
    <<ISave(0), ISplit(2, 7), IEmptyLook("StartText"), A, B,
      IChar(99, FALSE), IJump(11), IChar(100, FALSE), IChar(101, FALSE),
      IChar(102, FALSE), IEmptyLook("EndText"), ISave(1), IMatch>>,
    \* 20: (?m)^$
    <<ISave(0), IEmptyLook("StartLine"), IEmptyLook("EndLine"), ISave(1),
      IMatch>>
>>

\* Every text of at most MaxLen characters, as UTF-8 bytes.
Texts ==
    {EncodeStr(cs) : cs \in UNION {[1..n -> Alphabet] : n \in 0..MaxLen}}

\* The character boundaries of a text, the end included.
Boundaries(t) ==
    {i \in 0..Len(t) : i = Len(t) \/ ~IsContinuation(t[i + 1])}

\* The runs made on one (program, text, start): each engine with a full
\* capture buffer, a buffer for the whole match and an empty buffer, with
\* the extracted prefixes and, when there are any, without them.
RunsOf(insts) ==
    LET n == 2 * num_captures(insts)
        lens == IF n > 2 THEN <<n, 2, 0>> ELSE <<2, 0>>
        of(engine, pfx) ==
            [i \in 1..Len(lens) |->
                [engine |-> engine, len |-> lens[i], pfx |-> pfx]]
        with == of("nfa", TRUE) \o of("bt", TRUE)
    IN IF Program_find_prefixes(insts) = <<>> THEN with
       ELSE with \o of("nfa", FALSE) \o of("bt", FALSE)

\* ---------------------------------------------------------------- the state
VARIABLES
    px,           \* a call of CharInput::prefix_at and what it returned
    pid,          \* the program: an index of Catalogue \o Examples
    text,         \* the text searched
    start,        \* the start offset the caller passes
    k,            \* number of the run in progress
    ip,           \* where the run in progress stands
    caps,         \* the caller's capture buffer
    results,      \* what the finished runs returned
    nfa_threads,  \* Program.nfa_threads: the pool's stack
    backtrack,    \* Program.backtrack: the pool's stack
    q,            \* Nfa::run: the NfaThreads checked out
    inp,          \* Nfa.input
    matched,      \* Nfa::exec: matched
    ti,           \* Nfa::exec: i of the for loop
    m,            \* Backtrack.m
    bat,          \* Backtrack::exec_: at
    spc,          \* Backtrack::step: pc
    sat,          \* Backtrack::step: at
    gh,           \* counters of the run in progress and of the pools
    sc,           \* the stale-scratch comparison: target and earlier run
    fx,           \* the call of find_one and find_any under observation
    cx,           \* the calls of at and previous_at under observation
    pl,           \* a pool shared by concurrent runs
    ex,           \* a call of Program::find_prefixes under observation
    ox            \* a call of CharRanges::matches or LookInst::matches

vars == <<px, pid, text, start, k, ip, caps, results, nfa_threads, backtrack,
          q, inp, matched, ti, m, bat, spc, sat, gh, sc, fx, cx, pl, ex,
          ox>>

insts == (Catalogue \o Examples)[pid]

\* A run on a fresh scratch object, a run on another text that leaves
\* the object used, and the first run again.
StaleRuns ==
    LET r(n) == [engine |-> sc.engine, len |-> n, pfx |-> TRUE]
    IN <<r(sc.len), r(2 * num_captures(insts)), r(sc.len)>>

runs == IF sc.on THEN StaleRuns ELSE RunsOf(insts)

\* The text and the start of run k are in place.
Targeted == sc.on => sc.swaps = k - 1

\* The Program the run in progress uses.
prog ==
    LET p == Program_new(insts)
    IN IF runs[k].pfx THEN p ELSE [p EXCEPT !.prefixes = <<>>]

NoScratch == <<>>

NoInput == CharInput_new(<<>>, 0)

\* No call of prefix_at under observation.
NoCall == [prefixes |-> <<>>, text |-> <<>>, at |-> NoAt, out |-> NoAt,
           called |-> FALSE]

\* The counters before any run: no instruction expanded, no round of the
\* loop of Nfa::exec entered, no scratch object created, no Split executed
\* whose SplitNext job is on the stack (snaps: the capture buffer at each
\* of these Splits, oldest first).
NoCount ==
    [exp |-> {}, nexp |-> 0, iters |-> 0, steps |-> 0, at0 |-> 0, at1 |-> 0,
     made_nfa |-> 0, made_bt |-> 0, snaps |-> <<>>]

\* The counters at the entry of a run that found `stack` in its pool: those
\* of the run start again, those of the pools go on.
RunCount(stack, nfa) ==
    LET n == IF stack = <<>> THEN 1 ELSE 0
    IN [NoCount EXCEPT
           !.made_nfa = gh.made_nfa + (IF nfa THEN n ELSE 0),
           !.made_bt = gh.made_bt + (IF nfa THEN 0 ELSE n)]

\* No earlier run on another text.
NoStale ==
    [on |-> FALSE, engine |-> "nfa", len |-> 0, text |-> <<>>, start |-> 0,
     swaps |-> 0]

\* No call of find_one and find_any under observation.
NoFind ==
    [needles |-> <<>>, haystack |-> <<>>, needle |-> <<>>, one |-> None,
     any |-> None, called |-> FALSE]

\* No call of at and previous_at under observation.
NoCursor ==
    [chars |-> <<>>, text |-> <<>>, i |-> 0, at |-> NoAt, prev |-> NoAt,
     prev0 |-> NoAt, called |-> FALSE]

\* No pool shared by concurrent runs.
NoPool == [stack |-> <<>>, lock |-> 0, made |-> 0, th |-> <<>>]

\* No call of CharRanges::matches or LookInst::matches under observation.
NoMatches ==
    [op |-> "none", ranges |-> <<>>, casei |-> FALSE, c |-> Absent,
     c1 |-> Absent, c2 |-> Absent, out |-> None, look |-> <<>>,
     called |-> FALSE]

\* No call of Program::find_prefixes under observation.
NoExtract ==
    [insts |-> <<>>, done |-> TRUE, prefixes |-> <<>>, seen |-> 0,
     gaveup |-> FALSE, called |-> FALSE]

Init ==
    /\ ex = NoExtract
    /\ ox = NoMatches
    /\ gh = NoCount
    /\ sc = NoStale
    /\ fx = NoFind
    /\ cx = NoCursor
    /\ pl = NoPool
    /\ px = NoCall
    /\ pid \in 1..Len(Catalogue)
    /\ text \in Texts
    /\ start \in Boundaries(text)
    /\ k = 1
    /\ ip = "idle"
    /\ caps = <<>>
    /\ results = <<>>
    /\ nfa_threads = <<>>
    /\ backtrack = <<>>
    /\ q = NoScratch
    /\ inp = NoInput
    /\ matched = FALSE
    /\ ti = 0
    /\ m = NoScratch
    /\ bat = NoAt
    /\ spc = 0
    /\ sat = NoAt

\* The buffer the caller passes to run k: all None.
EntryCaps == [i \in 1..runs[k].len |-> None]

\* What a finished run leaves in results.
Result(b) ==
    [engine |-> runs[k].engine, len |-> runs[k].len, pfx |-> runs[k].pfx,
     matched |-> b, caps |-> caps]

\* After run k: the next run, or the end.
NextIp == IF k + 1 > Len(runs) THEN "done" ELSE "idle"

\* ----------------------------------------------------------- NFA actions
\* Nfa::run up to the loop of Nfa::exec: check the scratch out, place the
\* cursor at start, empty both thread lists.
NfaRun ==
    /\ ip = "idle"
    /\ Targeted
    /\ runs[k].engine = "nfa"
    /\ LET g == Pool_get(nfa_threads,
                         NfaThreads_new(Len(insts), num_captures(insts)))
       IN /\ nfa_threads' = g.stack
          /\ q' = [clist |-> Threads_empty(g.v.clist),
                   nlist |-> Threads_empty(g.v.nlist)]
    /\ inp' = CharInput_new(text, start)
    /\ caps' = EntryCaps
    /\ matched' = FALSE
    /\ ti' = 0
    /\ ip' = "nfa_loop"
    /\ gh' = RunCount(nfa_threads, TRUE)
    /\ UNCHANGED <<fx, cx, pl, ex, ox, sc, px>>
    /\ UNCHANGED <<pid, text, start, k, results, backtrack, m, bat, spc, sat>>

\* Nfa::exec lines 91-126: the exits taken on an empty clist, the prefix
\* jump, the thread injected at pc = 0, the advance of the cursor.
NfaLoop ==
    /\ ip = "nfa_loop"
    /\ LET empty == q.clist.size = 0
           jump == empty /\ Len(prog.prefixes) > 0
           ap == advance_prefix(text, inp, prog.prefixes)
           stop == empty /\ \/ matched
                            \/ (~beginning(inp) /\ prog.anchored_begin)
                            \/ (jump /\ ~ap.ok)
           inp1 == IF jump THEN ap.inp ELSE inp
           r == Nfa_add(prog.insts, inp1, q.clist, 0, caps)
       IN IF stop
              THEN /\ ip' = "nfa_ret"
                   /\ gh' = [gh EXCEPT !.iters = @ + 1]
                   /\ UNCHANGED <<q, inp, caps, ti>>
              ELSE /\ IF Nfa_inject(q.clist.size, prog.anchored_begin, matched)
                          THEN /\ q' = [q EXCEPT !.clist = r.l]
                               /\ caps' = r.tc
                          ELSE UNCHANGED <<q, caps>>
                   /\ inp' = advance(text, inp1)
                   /\ ti' = 0
                   /\ ip' = "nfa_step"
                   /\ gh' = [gh EXCEPT !.iters = @ + 1, !.at0 = inp.nbo,
                                        !.at1 = inp1.nbo]
    /\ UNCHANGED <<fx, cx, pl, ex, ox, sc, px>>
    /\ UNCHANGED <<pid, text, start, k, results, nfa_threads, backtrack,
                   matched, m, bat, spc, sat>>

\* Nfa::exec lines 127-136: one round of the for loop over clist.
NfaStep ==
    /\ ip = "nfa_step"
    /\ IF ti >= q.clist.size
           THEN /\ ip' = "nfa_swap"
                /\ UNCHANGED <<q, caps, matched, ti, gh>>
           ELSE LET t == q.clist.queue[ti + 1]
                    r == Nfa_step(prog.insts, inp, caps, q.nlist, t.caps, t.pc)
                IN /\ q' = [q EXCEPT !.nlist = r.nlist]
                   /\ caps' = r.caps
                   /\ matched' = (matched \/ r.step # "Continue")
                   /\ ti' = ti + 1
                   /\ ip' = CASE r.step = "MatchEarlyReturn" -> "nfa_ret"
                              [] r.step = "Match" -> "nfa_swap"
                              [] OTHER -> "nfa_step"
                   /\ gh' = [gh EXCEPT !.steps = @ + 1]
    /\ UNCHANGED <<fx, cx, pl, ex, ox, sc, px>>
    /\ UNCHANGED <<pid, text, start, k, results, nfa_threads, backtrack, inp,
                   m, bat, spc, sat>>

\* Nfa::exec lines 137-141: leave at the end of the text, else swap the
\* lists and empty nlist.
NfaSwap ==
    /\ ip = "nfa_swap"
    /\ IF Nfa_at_end(inp)
           THEN /\ ip' = "nfa_ret"
                /\ UNCHANGED q
           ELSE /\ ip' = "nfa_loop"
                /\ q' = [clist |-> q.nlist, nlist |-> Threads_empty(q.clist)]
    /\ UNCHANGED <<fx, cx, pl, ex, ox, sc, gh, px>>
    /\ UNCHANGED <<pid, text, start, k, caps, results, nfa_threads, backtrack,
                   inp, matched, ti, m, bat, spc, sat>>

\* Nfa::run lines 83-84: put the scratch back and return matched.
NfaRet ==
    /\ ip = "nfa_ret"
    /\ nfa_threads' = Pool_put(nfa_threads, q)
    /\ q' = NoScratch
    /\ results' = Append(results, Result(matched))
    /\ k' = k + 1
    /\ ip' = NextIp
    /\ UNCHANGED <<fx, cx, pl, ex, ox, sc, gh, px>>
    /\ UNCHANGED <<pid, text, start, caps, backtrack, inp, matched, ti, m,
                   bat, spc, sat>>

\* ---------------------------------------------------- backtracker actions
\* Backtrack::exec lines 60-69: the InputAt of start, the scratch checked
\* out and cleared.
BtExec ==
    /\ ip = "idle"
    /\ Targeted
    /\ runs[k].engine = "bt"
    /\ LET g == Pool_get(backtrack, BackMachine_new)
       IN /\ backtrack' = g.stack
          /\ m' = BackMachine_clear(g.v)
    /\ bat' = At(text, start)
    /\ caps' = EntryCaps
    /\ matched' = FALSE
    /\ ip' = "bt_outer"
    /\ gh' = RunCount(backtrack, FALSE)
    /\ UNCHANGED <<fx, cx, pl, ex, ox, sc, px>>
    /\ UNCHANGED <<pid, text, start, k, results, nfa_threads, q, inp, ti,
                   spc, sat>>

\* Backtrack::exec_ up to the push that opens Backtrack::backtrack: the
\* anchored exit, the prefix jump.
BtOuter ==
    /\ ip = "bt_outer"
    /\ LET pa == prefix_at(text, prog.prefixes, bat)
       IN IF (prog.anchored_begin /\ ~is_beginning(bat)) \/ pa = NoAt
              THEN /\ ip' = "bt_ret"
                   /\ UNCHANGED <<m, bat>>
              ELSE /\ bat' = pa
                   /\ m' = Bt_push(m, 0, pa)
                   /\ ip' = "bt_pop"
    /\ UNCHANGED <<fx, cx, pl, ex, ox, sc, gh, px>>
    /\ UNCHANGED <<pid, text, start, k, caps, results, nfa_threads, backtrack,
                   q, inp, matched, ti, spc, sat>>

\* Backtrack::backtrack: one round of the while loop, up to the call of
\* step; on an empty stack backtrack returns false and exec_ goes on
\* (lines 95-98, or the anchored return).
BtPop ==
    /\ ip = "bt_pop"
    /\ IF m.jobs = <<>>
           THEN /\ IF prog.anchored_begin \/ is_end(bat)
                       THEN /\ ip' = "bt_ret"
                            /\ bat' = bat
                       ELSE /\ ip' = "bt_outer"
                            /\ bat' = At(text, next_pos(bat))
                /\ UNCHANGED <<m, caps, spc, sat, gh>>
           ELSE LET job == m.jobs[Len(m.jobs)]
                    m1 == [m EXCEPT !.jobs = SubSeq(@, 1, Len(@) - 1)]
                IN /\ bat' = bat
                   /\ CASE job.kind = "Inst" ->
                             /\ spc' = job.pc
                             /\ sat' = job.at
                             /\ m' = m1
                             /\ ip' = "bt_step"
                             /\ caps' = caps
                        [] job.kind = "SaveRestore" ->
                             /\ caps' = Bt_restore(caps, job.slot, job.old_pos)
                             /\ m' = m1
                             /\ ip' = "bt_pop"
                             /\ UNCHANGED <<spc, sat>>
                        [] OTHER ->
                             /\ m' = Bt_push(m1, job.pc, job.at)
                             /\ ip' = "bt_pop"
                             /\ UNCHANGED <<caps, spc, sat>>
                   /\ gh' = IF job.kind = "SplitNext"
                                THEN [gh EXCEPT
                                         !.snaps = SubSeq(@, 1, Len(@) - 1)]
                                ELSE gh
    /\ UNCHANGED <<fx, cx, pl, ex, ox, sc, px>>
    /\ UNCHANGED <<pid, text, start, k, results, nfa_threads, backtrack, q,
                   inp, matched, ti>>

\* Backtrack::step: one round of its loop, the has_visited test included.
BtStep ==
    /\ ip = "bt_step"
    /\ LET r == Bt_step_inst(prog.insts, text, m, caps, spc, sat)
           h == has_visited(r.m, r.pc, r.at)
       IN /\ caps' = r.caps
          /\ gh' = [gh EXCEPT !.exp = @ \cup {<<spc, sat.pos>>},
                               !.nexp = @ + 1,
                               !.snaps = IF InstAt(prog.insts, spc).op = "Split"
                                             THEN Append(@, caps)
                                             ELSE @]
          /\ CASE r.ret = "true" ->
                    /\ matched' = TRUE
                    /\ ip' = "bt_ret"
                    /\ UNCHANGED <<m, spc, sat>>
               [] r.ret = "false" ->
                    /\ ip' = "bt_pop"
                    /\ UNCHANGED <<m, spc, sat, matched>>
               [] OTHER ->
                    /\ m' = h.m
                    /\ spc' = r.pc
                    /\ sat' = r.at
                    /\ ip' = IF h.seen THEN "bt_pop" ELSE "bt_step"
                    /\ matched' = matched
    /\ UNCHANGED <<fx, cx, pl, ex, ox, sc, px>>
    /\ UNCHANGED <<pid, text, start, k, results, nfa_threads, backtrack, q,
                   inp, ti, bat>>

\* Backtrack::exec lines 71-72: put the scratch back and return matched.
BtRet ==
    /\ ip = "bt_ret"
    /\ backtrack' = Pool_put(backtrack, m)
    /\ m' = NoScratch
    /\ results' = Append(results, Result(matched))
    /\ k' = k + 1
    /\ ip' = NextIp
    /\ UNCHANGED <<fx, cx, pl, ex, ox, sc, gh, px>>
    /\ UNCHANGED <<pid, text, start, caps, nfa_threads, q, inp, matched, ti,
                   bat, spc, sat>>

Next ==
    \/ NfaRun
    \/ NfaLoop
    \/ NfaStep
    \/ NfaSwap
    \/ NfaRet
    \/ BtExec
    \/ BtOuter
    \/ BtPop
    \/ BtStep
    \/ BtRet

Spec == Init /\ [][Next]_vars

\* =================================================================== claims
Done == ip = "done"

Results == {results[i] : i \in 1..Len(results)}

FullLen == 2 * num_captures(insts)

\* The result of the finished run of an engine with a buffer of length len,
\* with or without the extracted prefixes.
ResOf(engine, len, pfx) ==
    CHOOSE r \in Results : r.engine = engine /\ r.len = len /\ r.pfx = pfx

Engines == {"nfa", "bt"}

\* The reference priority search: the end of the first accepting path from
\* (pc, pos) when at every Split(x, y) the path through x is tried before
\* the path through y; a path does not pass twice through the same
\* instruction at the same offset.  None when there is no accepting path.
RECURSIVE RefFrom(_, _, _, _, _)
RefFrom(is, t, pc, pos, onpath) ==
    LET inst == InstAt(is, pc)
        c == DecodeAt(t, pos)
        on == onpath \cup {<<pc, pos>>}
    IN IF <<pc, pos>> \in onpath THEN None
       ELSE CASE inst.op = "Match" -> pos
              [] inst.op = "Save" -> RefFrom(is, t, pc + 1, pos, on)
              [] inst.op = "Jump" -> RefFrom(is, t, inst.x, pos, on)
              [] inst.op = "Split" ->
                    LET l == RefFrom(is, t, inst.x, pos, on)
                    IN IF l # None THEN l
                       ELSE RefFrom(is, t, inst.y, pos, on)
              [] inst.op = "EmptyLook" ->
                    IF LookInst_matches(inst.look, DecodeBefore(t, pos), c)
                        THEN RefFrom(is, t, pc + 1, pos, on)
                        ELSE None
              [] inst.op = "Char" ->
                    IF c # Absent /\ (c = inst.c
                                      \/ (inst.casei /\ case_fold(c) = inst.c))
                        THEN RefFrom(is, t, pc + 1, pos + len_utf8(c), {})
                        ELSE None
              [] OTHER ->
                    IF c # Absent /\ \E i \in 1..Len(inst.ranges) :
                           LET f == IF inst.casei THEN case_fold(c) ELSE c
                           IN inst.ranges[i][1] <= f /\ f <= inst.ranges[i][2]
                        THEN RefFrom(is, t, pc + 1, pos + len_utf8(c), {})
                        ELSE None

\* The whole match of the reference search from offset st on.
RefSearch(is, t, st) ==
    LET starts == {s \in Boundaries(t) :
                      s >= st /\ RefFrom(is, t, 0, s, {}) # None}
        s0 == CHOOSE s \in starts : \A s2 \in starts : s <= s2
    IN IF starts = {} THEN [matched |-> FALSE, s |-> None, e |-> None]
       ELSE [matched |-> TRUE, s |-> s0, e |-> RefFrom(is, t, 0, s0, {})]

\* C1: run in existence mode (empty capture buffer) from start offset 0, the
\* NFA VM and the backtracking VM return the same boolean.
C1_ExistenceAgreement ==
    (Done /\ start = 0) =>
        ResOf("nfa", 0, TRUE).matched = ResOf("bt", 0, TRUE).matched

C1_Witness ==
    /\ Done /\ start = 0 /\ Len(text) = MaxLen
    /\ ResOf("nfa", 0, TRUE).matched
    /\ ResOf("bt", 0, TRUE).matched
    /\ Program_find_prefixes(insts) = <<>>

\* C2: the whole match each engine reports (slots 0 and 1) is the one of the
\* reference priority search: it begins at the smallest offset >= start
\* from which Match can be reached and ends where the first accepting path
\* ends when x is explored before y at every Split(x, y).
C2_LeftmostFirst ==
    Done =>
        \A r \in Results :
            r.len >= 2 =>
                LET ref == RefSearch(insts, text, start)
                IN /\ r.matched = ref.matched
                   /\ r.matched => (r.caps[1] = ref.s /\ r.caps[2] = ref.e)

C2_Witness ==
    /\ Done
    /\ \E r \in Results :
          /\ r.len >= 2 /\ r.matched
          /\ r.caps[1] > start
          /\ r.caps[2] > r.caps[1]
          /\ r.caps[2] < Len(text)

\* C3: given an all-None buffer of length 2 x num_captures, the two engines
\* return the same boolean and, on a match, equal slot 0 and equal slot 1.
C3_EnginesAgree ==
    Done =>
        LET n == ResOf("nfa", FullLen, TRUE)
            b == ResOf("bt", FullLen, TRUE)
        IN /\ n.matched = b.matched
           /\ n.matched => (n.caps[1] = b.caps[1] /\ n.caps[2] = b.caps[2])

C3_Witness ==
    /\ Done /\ start > 0 /\ FullLen > 2
    /\ ResOf("nfa", FullLen, TRUE).matched
    /\ ResOf("bt", FullLen, TRUE).matched
    /\ ResOf("nfa", FullLen, TRUE).caps[2] > ResOf("nfa", FullLen, TRUE).caps[1]

\* An NFA run with a capture buffer is in progress.
InNfaRun == ip \in {"nfa_loop", "nfa_step", "nfa_swap", "nfa_ret"}

\* C4: in an NFA run with a capture buffer, once a match has been found the
\* caller's slot 0 never increases for the rest of the run.
C4_Slot0NeverIncreases ==
    [][(InNfaRun /\ matched /\ Len(caps) > 0 /\ InNfaRun')
           => caps'[1] <= caps[1]]_vars

\* A match has been found and the run goes on, past the match's start, with
\* the threads that were ahead of the matching one.
C4_Witness ==
    /\ ip = "nfa_step" /\ matched /\ Len(caps) > 0
    /\ q.clist.size > 0 /\ ti = 0
    /\ caps[1] < inp.nbo - 1

\* C5: after a successful run with a full all-None buffer, every capture
\* group with both slots Some has slot[2i] <= slot[2i+1], both of them
\* character boundaries of the text in [start, len(text)].
C5_CaptureContainment ==
    Done =>
        \A r \in Results :
            (r.len = FullLen /\ r.matched) =>
                \A i \in 0..(num_captures(insts) - 1) :
                    LET s == r.caps[2 * i + 1]
                        e == r.caps[2 * i + 2]
                    IN (s # None /\ e # None) =>
                          /\ s <= e
                          /\ s \in Boundaries(text) /\ e \in Boundaries(text)
                          /\ s >= start /\ e <= Len(text)

\* A group other than the whole match is set, after a two-byte character.
C5_Witness ==
    /\ Done /\ FullLen > 2
    /\ \E j \in 1..Len(text) : IsContinuation(text[j])
    /\ \A r \in Results :
          r.len = FullLen =>
              /\ r.matched
              /\ r.caps[3] # None /\ r.caps[3] > 2 /\ r.caps[4] > r.caps[3]
              /\ IsContinuation(text[r.caps[3]])

\* C6: for a program with anchored_begin set, every successful run with a
\* capture buffer leaves slot 0 equal to the start offset passed.
C6_AnchorCorrect ==
    (Done /\ anchored_begin_of(insts)) =>
        \A r \in Results : (r.len > 0 /\ r.matched) => r.caps[1] = start

C6_Witness ==
    /\ Done /\ anchored_begin_of(insts) /\ Len(text) > 1
    /\ \A r \in Results : r.matched
    /\ \E r \in Results : r.len > 0 /\ r.caps[2] > 0

\* C7: a run that returns false leaves the caller's buffer as it was on
\* entry (all None here): every speculative Save has been undone.
C7_NoPartialResults ==
    \A r \in Results :
        ~r.matched => r.caps = [i \in 1..r.len |-> None]

\* A failed backtracker run that passed Save instructions of two groups and
\* consumed a character before it failed.
C7_Witness ==
    /\ Done /\ FullLen > 2 /\ Len(text) = MaxLen
    /\ InstAt(insts, 1).op = "Save"
    /\ DecodeAt(text, 0) = 97
    /\ \A r \in Results : ~r.matched

\* C8: the boolean an engine returns does not depend on the buffer length,
\* and a buffer of length 2 and a full buffer get the same slots 0 and 1.
C8_ModeIndependent ==
    Done =>
        \A e \in Engines :
            LET full == ResOf(e, FullLen, TRUE)
                whole == ResOf(e, 2, TRUE)
                exist == ResOf(e, 0, TRUE)
            IN /\ full.matched = whole.matched
               /\ whole.matched = exist.matched
               /\ whole.matched =>
                     (whole.caps[1] = full.caps[1]
                      /\ whole.caps[2] = full.caps[2])

C8_Witness ==
    /\ Done /\ FullLen > 2
    /\ \A r \in Results : r.matched
    /\ ResOf("nfa", 2, TRUE).caps[2] > ResOf("nfa", 2, TRUE).caps[1]
    /\ ResOf("nfa", FullLen, TRUE).caps[3] # None

\* C9: each engine run with the extracted prefix list returns the same
\* boolean and the same capture slots as run with an empty prefix list.
C9_PrefixTransparent ==
    (Done /\ Program_find_prefixes(insts) # <<>>) =>
        \A e \in Engines : \A n \in {FullLen, 2, 0} :
            LET with == ResOf(e, n, TRUE)
                without == ResOf(e, n, FALSE)
            IN with.matched = without.matched /\ with.caps = without.caps

\* The prefix scan skipped at least one character before the match.
C9_Witness ==
    /\ Done /\ Len(Program_find_prefixes(insts)) > 1
    /\ \A r \in Results : r.matched
    /\ ResOf("bt", 2, TRUE).caps[1] > start + 1

\* ------------------------------------------------- prefix_at on its own
\* The non-empty strings prefix extraction can leave in a prefix list.
Needles ==
    {EncodeStr(cs) : cs \in UNION {[1..n -> Alphabet] : n \in 1..MaxNeedle}}

PrefixLists == UNION {[1..n -> Needles] : n \in 0..MaxPrefixes}

InitPrefix ==
    /\ ex = NoExtract
    /\ ox = NoMatches
    /\ px \in {[prefixes |-> ps, text |-> t, at |-> At(t, b), out |-> NoAt,
                called |-> FALSE] :
                 ps \in PrefixLists,
                 <<t, b>> \in {<<t, b>> \in Texts \X (0..(2 * MaxLen)) :
                                  b \in Boundaries(t)}}
    /\ gh = NoCount
    /\ sc = NoStale
    /\ fx = NoFind
    /\ cx = NoCursor
    /\ pl = NoPool
    /\ pid = 1
    /\ text = <<>>
    /\ start = 0
    /\ k = 1
    /\ ip = "prefix_at"
    /\ caps = <<>>
    /\ results = <<>>
    /\ nfa_threads = <<>>
    /\ backtrack = <<>>
    /\ q = NoScratch
    /\ inp = NoInput
    /\ matched = FALSE
    /\ ti = 0
    /\ m = NoScratch
    /\ bat = NoAt
    /\ spc = 0
    /\ sat = NoAt

\* A call of CharInput::prefix_at.
PrefixAtCall ==
    /\ ip = "prefix_at"
    /\ ~px.called
    /\ px' = [px EXCEPT !.out = prefix_at(px.text, px.prefixes, px.at),
                        !.called = TRUE]
    /\ UNCHANGED <<ex, ox>>
    /\ UNCHANGED <<fx, cx, pl, sc, gh, pid, text, start, k, ip, caps, results,
                   nfa_threads, backtrack, q, inp, matched, ti, m, bat, spc,
                   sat>>

NextPrefix == PrefixAtCall

SpecPrefix == InitPrefix /\ [][NextPrefix]_vars

\* Prefix number i of the call occurs in its text starting exactly at p.
OccursAt(i, p) ==
    /\ p + Len(px.prefixes[i]) <= Len(px.text)
    /\ \A j \in 1..Len(px.prefixes[i]) : px.text[p + j] = px.prefixes[i][j]

\* C10: prefix_at returns `at` unchanged when the prefix list is empty;
\* otherwise the InputAt at the smallest byte offset p >= at.byte_pos at
\* which some listed prefix occurs, and nothing when there is no such p.
C10_PrefixAt ==
    px.called =>
        LET occ == {p \in px.at.pos..Len(px.text) :
                       \E i \in 1..Len(px.prefixes) : OccursAt(i, p)}
        IN IF px.prefixes = <<>> THEN px.out = px.at
           ELSE IF occ = {} THEN px.out = NoAt
           ELSE /\ px.out.pos \in occ
                /\ \A p \in occ : px.out.pos <= p
                /\ px.out.c = DecodeAt(px.text, px.out.pos)
                /\ px.out.len = len_utf8(px.out.c)

\* Two prefixes, a call from inside the text, a prefix found further on.
C10_Witness ==
    /\ px.called
    /\ Len(px.prefixes) = 2
    /\ px.at.pos > 0
    /\ px.out # NoAt
    /\ px.out.pos > px.at.pos

\* ------------------------------------------------------- bounds of a run
InBtRun == ip \in {"bt_outer", "bt_pop", "bt_step", "bt_ret"}

\* C11: during one call of the backtracker, over all the start positions it
\* tries, no (pc, byte position) pair is expanded twice, so the number of
\* instructions expanded is at most |insts| * (|text| + 1).
C11_ExpandedOnce ==
    /\ gh.nexp = Cardinality(gh.exp)
    /\ \A e \in gh.exp : e[1] \in 0..(Len(insts) - 1) /\ e[2] \in 0..Len(text)
    /\ gh.nexp <= Len(insts) * (Len(text) + 1)
    /\ InBtRun => gh.exp \subseteq m.visited

\* A call that went through several start positions and expanded more
\* pairs than the program has instructions.
C11_Witness ==
    /\ ip = "bt_ret"
    /\ bat.pos > start + 1
    /\ gh.nexp > Len(insts)

\* The byte offset one character after offset p of the text; p itself at
\* the end of the text, where there is no character to pass.
OneCharAfter(p) ==
    IF p >= Len(text) THEN p ELSE p + Len(EncodeChar(DecodeAt(text, p)))

\* The text a^n of the stress test.
Stress(n) == [j \in 1..n |-> 97]

\* The bounds of an NFA run: the rounds of the main loop, the threads
\* stepped in a round and in the whole run, and the result on the stress
\* program a?^n a^n applied to a^n.
NfaWork ==
    /\ gh.iters <= Len(text) - start + 1
    /\ gh.steps <= Len(insts) * (Len(text) + 1)
    /\ ip \in {"nfa_step", "nfa_swap"} =>
           ti <= q.clist.size /\ q.clist.size <= Len(insts)
    /\ \A n \in 2..3 :
           (ip = "nfa_ret" /\ insts = NoExponential(n) /\ text = Stress(n)
               /\ start = 0) => matched

\* C12 as stated: an NFA run makes at most len(text) - start + 1 rounds of
\* its main loop, each round moves the cursor exactly one character on from
\* where the round found it and steps at most |insts| threads, so at most
\* |insts| * (|text| + 1) threads are stepped in all; the stress program
\* a?^n a^n matches a^n.
C12_OneCharPerRound ==
    /\ NfaWork
    /\ ip \in {"nfa_step", "nfa_swap"} => inp.nbo = OneCharAfter(gh.at0)

\* C12 amended: as above, but a round moves the cursor exactly one
\* character on from the prefix candidate it jumped to when clist was empty
\* and the program has prefixes, so never less than one character on from
\* where the round found it, except at the end of the text.
C12_OneCharAfterJump ==
    /\ NfaWork
    /\ ip \in {"nfa_step", "nfa_swap"} =>
           /\ inp.nbo = OneCharAfter(gh.at1)
           /\ gh.at1 >= gh.at0
           /\ gh.at1 > gh.at0 => Len(prog.prefixes) > 0

\* The stress program for n = 3 has matched a^3 after as many rounds as the
\* bound allows.
C12_Witness ==
    /\ ip = "nfa_ret"
    /\ insts = NoExponential(3) /\ text = Stress(3) /\ start = 0
    /\ runs[k].len > 0
    /\ matched
    /\ gh.iters = Len(text) - start + 1
    /\ gh.steps > Len(insts)

\* C14: a run of either engine has put its scratch object back when it
\* returns, whatever way it left its loop; so between runs and after the
\* last one no run holds a scratch object and each pool's stack holds every
\* object created for the program.
C14_ScratchReturned ==
    /\ ip \in {"idle", "done"} =>
           /\ q = NoScratch /\ m = NoScratch
           /\ Len(nfa_threads) = gh.made_nfa
           /\ Len(backtrack) = gh.made_bt
    /\ InNfaRun => q # NoScratch /\ Len(nfa_threads) = gh.made_nfa - 1
    /\ InBtRun => m # NoScratch /\ Len(backtrack) = gh.made_bt - 1
    /\ Len(results) = k - 1

\* Every run has returned: some matched in capture mode, one by the early
\* return of existence mode, all on the one object of their engine's pool.
C14_Witness ==
    /\ Done
    /\ Len(results) > 6
    /\ \A r \in Results : r.matched
    /\ gh.made_nfa = 1 /\ gh.made_bt = 1
    /\ Len(nfa_threads) = 1 /\ Len(backtrack) = 1

\* ------------------------------------------ fresh and used scratch
\* The texts of the compared run.
StaleTexts ==
    {EncodeStr(cs) : cs \in UNION {[1..n -> Alphabet] : n \in 0..MaxStaleLen}}

\* The earlier run that leaves the scratch object used: e-acute a a b from
\* its start, with a full capture buffer.
EarlierText == <<195, 169, 97, 97, 98>>

InitStale ==
    /\ ex = NoExtract
    /\ ox = NoMatches
    /\ pid \in 1..Len(Catalogue)
    /\ text \in StaleTexts
    /\ start \in Boundaries(text)
    /\ sc \in {[on |-> TRUE, engine |-> e, len |-> n, text |-> EarlierText,
                 start |-> 0, swaps |-> 0] :
                  e \in Engines, n \in {2 * num_captures(insts), 2, 0}}
    /\ k = 1
    /\ ip = "idle"
    /\ caps = <<>>
    /\ results = <<>>
    /\ nfa_threads = <<>>
    /\ backtrack = <<>>
    /\ q = NoScratch
    /\ inp = NoInput
    /\ matched = FALSE
    /\ ti = 0
    /\ m = NoScratch
    /\ bat = NoAt
    /\ spc = 0
    /\ sat = NoAt
    /\ gh = NoCount
    /\ px = NoCall
    /\ fx = NoFind
    /\ cx = NoCursor
    /\ pl = NoPool

\* The caller's next call: on the other text, from the other start.
Retarget ==
    /\ ip = "idle"
    /\ sc.on
    /\ sc.swaps < k - 1
    /\ text' = sc.text
    /\ start' = sc.start
    /\ sc' = [sc EXCEPT !.text = text, !.start = start, !.swaps = @ + 1]
    /\ UNCHANGED <<ex, ox>>
    /\ UNCHANGED <<fx, cx, pl, gh, px, pid, k, ip, caps, results, nfa_threads,
                   backtrack, q, inp, matched, ti, m, bat, spc, sat>>

NextStale == Next \/ Retarget

SpecStale == InitStale /\ [][NextStale]_vars

\* C15: a run on a scratch object left by earlier runs returns the boolean
\* and the capture slots that the same run (same program, text, start and
\* buffer) returned on a freshly created scratch object.
C15_ScratchIndependent ==
    (Done /\ sc.on) =>
        /\ results[3].matched = results[1].matched
        /\ results[3].caps = results[1].caps

\* The compared run matched with a capture buffer, on the object that the
\* run on the other text, which matched elsewhere, had used.
C15_Witness ==
    /\ Done /\ sc.on
    /\ gh.made_nfa + gh.made_bt = 1
    /\ results[1].matched /\ results[2].matched
    /\ results[1].len > 0
    /\ results[2].caps[1] # results[1].caps[1]

\* ------------------------------------------- one pool, concurrent runs
\* The engines' variables while no engine runs.
EngineUnused ==
    /\ pid = 1
    /\ text = <<>>
    /\ start = 0
    /\ k = 1
    /\ caps = <<>>
    /\ results = <<>>
    /\ nfa_threads = <<>>
    /\ backtrack = <<>>
    /\ q = NoScratch
    /\ inp = NoInput
    /\ matched = FALSE
    /\ ti = 0
    /\ m = NoScratch
    /\ bat = NoAt
    /\ spc = 0
    /\ sat = NoAt
    /\ gh = NoCount

\* Scratch objects are told apart by the order of their creation; a thread
\* holding none holds 0.
InitPool ==
    /\ ex = NoExtract
    /\ ox = NoMatches
    /\ pl = [stack |-> <<>>, lock |-> 0, made |-> 0,
             th |-> [t \in 1..MaxThreads |-> [pc |-> "idle", held |-> 0,
                                           runs |-> 0]]]
    /\ ip = "pool"
    /\ EngineUnused
    /\ px = NoCall
    /\ sc = NoStale
    /\ fx = NoFind
    /\ cx = NoCursor

PoolUnchanged ==
    UNCHANGED <<ex, ox, px, fx, cx, sc, gh, pid, text, start, k, ip, caps,
                results, nfa_threads, backtrack, q, inp, matched, ti, m, bat,
                spc, sat>>

\* Pool::get line 21 and Pool::put line 31: self.stack.lock(), taken by one
\* thread at a time.
PoolLock(t) ==
    /\ ip = "pool"
    /\ pl.lock = 0
    /\ \/ /\ pl.th[t].pc = "idle"
          /\ pl.th[t].runs < MaxRuns
          /\ pl' = [pl EXCEPT !.lock = t, !.th[t].pc = "get"]
       \/ /\ pl.th[t].pc = "put"
          /\ pl' = [pl EXCEPT !.lock = t, !.th[t].pc = "push"]
    /\ PoolUnchanged

\* Pool::get lines 24-27: pop, or create on an empty stack.
PoolGet(t) ==
    /\ ip = "pool"
    /\ pl.th[t].pc = "get"
    /\ LET g == Pool_get(pl.stack, pl.made + 1)
       IN pl' = [pl EXCEPT !.stack = g.stack,
                           !.made = IF pl.stack = <<>> THEN @ + 1 ELSE @,
                           !.th[t].held = g.v,
                           !.th[t].pc = "got"]
    /\ PoolUnchanged

\* The end of Pool::get and of Pool::put: the guard of the mutex dropped.
PoolUnlock(t) ==
    /\ ip = "pool"
    /\ pl.lock = t
    /\ \/ /\ pl.th[t].pc = "got"
          /\ pl' = [pl EXCEPT !.lock = 0, !.th[t].pc = "exec"]
       \/ /\ pl.th[t].pc = "pushed"
          /\ pl' = [pl EXCEPT !.lock = 0, !.th[t].pc = "idle",
                              !.th[t].runs = @ + 1]
    /\ PoolUnchanged

\* Nfa::run line 83, Backtrack::exec line 70: the run on the scratch object.
PoolExec(t) ==
    /\ ip = "pool"
    /\ pl.th[t].pc = "exec"
    /\ pl' = [pl EXCEPT !.th[t].pc = "put"]
    /\ PoolUnchanged

\* Pool::put lines 32-33: push.
PoolPut(t) ==
    /\ ip = "pool"
    /\ pl.th[t].pc = "push"
    /\ pl' = [pl EXCEPT !.stack = Pool_put(pl.stack, pl.th[t].held),
                        !.th[t].held = 0,
                        !.th[t].pc = "pushed"]
    /\ PoolUnchanged

NextPool ==
    \E t \in 1..MaxThreads :
        \/ PoolLock(t)
        \/ PoolGet(t)
        \/ PoolUnlock(t)
        \/ PoolExec(t)
        \/ PoolPut(t)

SpecPool == InitPool /\ [][NextPool]_vars

\* The places scratch object v is in: slots of the stack and threads.
OnStack(v) == {i \in 1..Len(pl.stack) : pl.stack[i] = v}

HeldBy(v) == {t \in DOMAIN pl.th : pl.th[t].held = v}

\* C13: with concurrent runs on one program, every scratch object the pool
\* created is in exactly one place, on the stack or held by one run; no two
\* runs hold the same object.
C13_OneOwner ==
    /\ \A v \in 1..pl.made :
           Cardinality(OnStack(v)) + Cardinality(HeldBy(v)) = 1
    /\ \A t, u \in DOMAIN pl.th :
           (t # u /\ pl.th[t].held # 0) => pl.th[t].held # pl.th[u].held

\* Two runs at once, each on its own object, one of them on an object that
\* an earlier run put back.
C13_Witness ==
    /\ ip = "pool"
    /\ pl.th[1].pc = "exec" /\ pl.th[2].pc = "exec"
    /\ pl.th[1].held # pl.th[2].held
    /\ pl.th[1].runs + pl.th[2].runs > 0
    /\ pl.made = 2

\* ------------------------------------------------ prefix.rs on its own
FindBytes == {97, 98}

BytesUpTo(n) == UNION {[1..j -> FindBytes] : j \in 0..n}

\* The needle of find_one is the first of the list, the empty needle when
\* the list is empty.
InitFind ==
    /\ ex = NoExtract
    /\ ox = NoMatches
    /\ fx \in {[needles |-> ns, haystack |-> h,
                needle |-> IF ns = <<>> THEN <<>> ELSE ns[1],
                one |-> None, any |-> None, called |-> FALSE] :
                 ns \in UNION {[1..j -> BytesUpTo(MaxFindNeedle)] :
                                 j \in 0..MaxNeedles},
                 h \in BytesUpTo(MaxHay)}
    /\ ip = "find"
    /\ EngineUnused
    /\ px = NoCall
    /\ sc = NoStale
    /\ cx = NoCursor
    /\ pl = NoPool

\* A call of find_one and a call of find_any.
FindCall ==
    /\ ip = "find"
    /\ ~fx.called
    /\ fx' = [fx EXCEPT !.one = find_one(fx.needle, fx.haystack),
                        !.any = find_any(fx.needles, fx.haystack),
                        !.called = TRUE]
    /\ UNCHANGED <<ex, ox>>
    /\ UNCHANGED <<px, cx, pl, sc, gh, pid, text, start, k, ip, caps, results,
                   nfa_threads, backtrack, q, inp, matched, ti, m, bat, spc,
                   sat>>

NextFind == FindCall

SpecFind == InitFind /\ [][NextFind]_vars

\* The whole of needle n stands in the haystack of the call from byte p on.
StandsAt(n, p) ==
    /\ p + Len(n) <= Len(fx.haystack)
    /\ \A j \in 1..Len(n) : fx.haystack[p + j] = n[j]

\* The least element of a non-empty set of offsets, None for the empty set.
Leftmost(S) == IF S = {} THEN None ELSE CHOOSE p \in S : \A r \in S : p <= r

\* The offsets i with haystack[i .. i + len(needle)] == needle.
OneOcc == {p \in 0..Len(fx.haystack) : StandsAt(fx.needle, p)}

\* C16 as stated: find_one returns the smallest i with
\* haystack[i .. i+len(needle)] == needle, nothing when there is none or the
\* needle is longer than the haystack, and the same on each of its paths.
C16_FindOneLeftmost ==
    fx.called =>
        /\ fx.one = Leftmost(OneOcc)
        /\ (fx.needle # <<>> /\ Len(fx.needle) <= Len(fx.haystack)) =>
               fx.one = find_one_scan(fx.needle, fx.haystack, 0)

\* C16 amended: for a needle that is not empty find_one returns the
\* smallest i with haystack[i .. i+len(needle)] == needle, nothing when
\* there is none or the needle is longer than the haystack, and the same on
\* each of its paths; for the empty needle it returns nothing.
C16_FindOneNonEmpty ==
    fx.called =>
        /\ fx.needle # <<>> => fx.one = Leftmost(OneOcc)
        /\ fx.needle = <<>> => fx.one = None
        /\ (fx.needle # <<>> /\ Len(fx.needle) <= Len(fx.haystack)) =>
               fx.one = find_one_scan(fx.needle, fx.haystack, 0)

\* The general scan passed a window that begins with the needle's first
\* byte and differs, and found the needle further on.
C16_Witness ==
    /\ fx.called
    /\ Len(fx.needle) = 2 /\ Len(fx.haystack) > 2
    /\ fx.haystack[1] = fx.needle[1]
    /\ fx.one > 0

\* C17: find_any returns the leftmost byte position of the haystack at
\* which some needle of the list stands in full, and nothing when there is
\* none; a needle cut short by the end of the haystack does not count.
C17_FindAnyLeftmost ==
    fx.called =>
        fx.any = Leftmost({p \in 0..(Len(fx.haystack) - 1) :
                             \E ni \in 1..Len(fx.needles) :
                                 StandsAt(fx.needles[ni], p)})

\* Two needles; the first bytes of one end the haystack, the other stands
\* in full further left but not at the start.
C17_Witness ==
    /\ fx.called
    /\ Len(fx.needles) = 2
    /\ Len(fx.needles[1]) = 2
    /\ fx.any > 0
    /\ fx.haystack[Len(fx.haystack)] = fx.needles[1][1]
    /\ ~\E p \in 0..Len(fx.haystack) : StandsAt(fx.needles[1], p)

\* C18: with an empty needle find_one returns nothing, and find_any returns
\* nothing when a needle of the list is empty and no needle that is not
\* empty stands in the haystack.
C18_EmptyNeedleNone ==
    fx.called =>
        /\ fx.needle = <<>> => fx.one = None
        /\ ( /\ \E ni \in 1..Len(fx.needles) : fx.needles[ni] = <<>>
             /\ ~\E ni \in 1..Len(fx.needles) :
                    /\ fx.needles[ni] # <<>>
                    /\ \E p \in 0..Len(fx.haystack) :
                           StandsAt(fx.needles[ni], p) )
           => fx.any = None

\* ------------------------------------------- at and previous_at on their own
\* Characters of one, two, three and four bytes: a, e-acute, the euro sign,
\* U+1F600.
CursorAlphabet == {97, 233, 8364, 128512}

CursorStrings == UNION {[1..n -> CursorAlphabet] : n \in 0..MaxCursorLen}

InitCursor ==
    /\ ex = NoExtract
    /\ ox = NoMatches
    /\ cx \in {[chars |-> cs, text |-> EncodeStr(cs), i |-> b, at |-> NoAt,
                prev |-> NoAt, prev0 |-> NoAt, called |-> FALSE] :
                 <<cs, b>> \in
                     {<<cs, b>> \in
                          CursorStrings \X (0..(4 * MaxCursorLen)) :
                              b \in Boundaries(EncodeStr(cs))}}
    /\ ip = "cursor"
    /\ EngineUnused
    /\ px = NoCall
    /\ sc = NoStale
    /\ fx = NoFind
    /\ pl = NoPool

\* at(i), previous_at of the offset just after the character at i, and
\* previous_at(0).
CursorCall ==
    /\ ip = "cursor"
    /\ ~cx.called
    /\ LET at == At(cx.text, cx.i)
       IN cx' = [cx EXCEPT !.at = at,
                           !.prev = previous_at(cx.text, at.pos + at.len),
                           !.prev0 = previous_at(cx.text, 0),
                           !.called = TRUE]
    /\ UNCHANGED <<ex, ox>>
    /\ UNCHANGED <<px, fx, pl, sc, gh, pid, text, start, k, ip, caps, results,
                   nfa_threads, backtrack, q, inp, matched, ti, m, bat, spc,
                   sat>>

NextCursor == CursorCall

SpecCursor == InitCursor /\ [][NextCursor]_vars

\* C19: for a character boundary i before the end of the text, at(i) is
\* not absent, and previous_at(at.byte_pos + at.encoded_len) has the byte
\* position, the character and the encoded length of at(i).
C19_RoundTrip ==
    (cx.called /\ cx.i < Len(cx.text)) =>
        /\ ~is_none(cx.at.c)
        /\ cx.prev.pos = cx.at.pos
        /\ cx.prev.c = cx.at.c
        /\ cx.prev.len = cx.at.len

\* The round trip over a character of three or four bytes that is not the
\* first of its text.
C19_Witness ==
    /\ cx.called
    /\ cx.i > 1 /\ cx.i < Len(cx.text)
    /\ cx.at.len > 2
    /\ cx.prev = cx.at

\* The characters whose encodings end at or before byte i of the text.
RECURSIVE CharsBefore(_, _)
CharsBefore(cs, i) ==
    IF cs = <<>> \/ i < Len(EncodeChar(Head(cs))) THEN 0
    ELSE 1 + CharsBefore(Tail(cs), i - Len(EncodeChar(Head(cs))))

\* C20: at(i) is absent exactly when i is the length of the text, else it
\* is the character of the text that starts at byte i; its encoded length
\* is the length of that character's UTF-8 encoding, 0 when absent; and
\* previous_at(0) is absent, with encoded length 0 and byte position 0.
C20_AtWellFormed ==
    cx.called =>
        /\ cx.at.pos = cx.i
        /\ is_none(cx.at.c) <=> cx.i = Len(cx.text)
        /\ ~is_none(cx.at.c) =>
               /\ cx.at.c = cx.chars[CharsBefore(cx.chars, cx.i) + 1]
               /\ cx.at.len = Len(EncodeChar(cx.at.c))
        /\ is_none(cx.at.c) => cx.at.len = 0
        /\ cx.prev0 = InputAt(0, Absent, 0)

\* at called at the end of a text that ends with a character of four
\* bytes.
C20_Witness ==
    /\ cx.called
    /\ cx.i = Len(cx.text) /\ cx.i > 4
    /\ cx.chars[Len(cx.chars)] = 128512
    /\ is_none(cx.at.c)
    /\ cx.prev.len = 4

\* ------------------------------------------------- the worked examples
\* The searches of the worked examples, each from start 0: (a+)(b+) on
\* aaabbb, ^abc|def$ on xxdef, ^$ and the multi-line ^$ on the text that is
\* one newline, and every program on the empty text.
InitExample ==
    /\ ex = NoExtract
    /\ ox = NoMatches
    /\ \E r \in {<<6, <<97, 97, 97, 98, 98, 98>>>>,
                 <<19, <<120, 120, 100, 101, 102>>>>,
                 <<8, <<10>>>>,
                 <<20, <<10>>>>}
                \cup {<<p, <<>>>> :
                          p \in 1..(Len(Catalogue) + Len(Examples))} :
           pid = r[1] /\ text = r[2]
    /\ start = 0
    /\ k = 1
    /\ ip = "idle"
    /\ caps = <<>>
    /\ results = <<>>
    /\ nfa_threads = <<>>
    /\ backtrack = <<>>
    /\ q = NoScratch
    /\ inp = NoInput
    /\ matched = FALSE
    /\ ti = 0
    /\ m = NoScratch
    /\ bat = NoAt
    /\ spc = 0
    /\ sat = NoAt
    /\ gh = NoCount
    /\ sc = NoStale
    /\ px = NoCall
    /\ fx = NoFind
    /\ cx = NoCursor
    /\ pl = NoPool

SpecExample == InitExample /\ [][Next]_vars

\* The search of program p on the text t has finished.
ExampleDone(p, t) == Done /\ pid = p /\ text = t

\* C21: for (a+)(b+) on aaabbb both engines return true, with every buffer;
\* with the full buffer the whole match is (0, 6), group 1 is (0, 3) and
\* group 2 is (3, 6): the offsets saved on the winning greedy path.
C21_GreedyGroups ==
    ExampleDone(6, <<97, 97, 97, 98, 98, 98>>) =>
        /\ \A r \in Results : r.matched
        /\ \A e \in Engines :
               ResOf(e, FullLen, TRUE).caps = <<0, 6, 0, 3, 3, 6>>

\* Both engines finished on aaabbb with the buffer of six slots, after
\* the backtracker explored the b+ loop to the end of the text.
C21_Witness ==
    /\ ExampleDone(6, <<97, 97, 97, 98, 98, 98>>)
    /\ FullLen = 6
    /\ \A e \in Engines : \E r \in Results : r.engine = e /\ r.len = 6
    /\ gh.nexp > 10

\* C22: for ^abc|def$ on xxdef both engines return true, with every
\* buffer, and the whole match is 2..5; the program has no group but group
\* 0; the StartText inside the first alternative does not set
\* anchored_begin, so the search goes on from the later offsets.
C22_AlternateAnchors ==
    ExampleDone(19, <<120, 120, 100, 101, 102>>) =>
        /\ \A r \in Results : r.matched
        /\ \A e \in Engines : ResOf(e, 2, TRUE).caps = <<2, 5>>
        /\ num_captures(insts) = 1
        /\ ~Program_new(insts).anchored_begin

\* Both engines finished on xxdef with the buffer of the whole match;
\* the backtracker tried the start offsets 0 and 1 before its match at 2.
C22_Witness ==
    /\ ExampleDone(19, <<120, 120, 100, 101, 102>>)
    /\ \A e \in Engines : \E r \in Results : r.engine = e /\ r.len = 2
    /\ \E e \in gh.exp : e[2] = 0
    /\ \E e \in gh.exp : e[2] = 1
    /\ Program_new(insts).prefixes = <<>>

\* C23 as stated: for ^$ (Save 0, StartText, EndText, Save 1, Match) on the
\* text that is one newline, both engines report a match, at position 0.
C23_NewlineMatches ==
    ExampleDone(8, <<10>>) =>
        \A r \in Results :
            r.matched /\ (r.len > 0 => r.caps = <<0, 0>>)

\* C23, amended: for ^$ on the text that is one newline neither engine
\* reports a match and every buffer is left all None, since EndText holds
\* only where no character follows and anchored_begin ends the search
\* after offset 0; the multi-line ^$ (StartLine, EndLine) is matched by
\* both engines at (0, 0).
C23_NewlineNoMatch ==
    /\ ExampleDone(8, <<10>>) =>
           \A r \in Results :
               ~r.matched /\ r.caps = [i \in 1..r.len |-> None]
    /\ ExampleDone(20, <<10>>) =>
           \A r \in Results :
               r.matched /\ (r.len > 0 => r.caps = <<0, 0>>)

\* Both engines finished on the newline for ^$ with a buffer of two slots,
\* the backtracker after expanding the EndText instruction at offset 0 and
\* nothing at offset 1.
C23_Witness ==
    /\ ExampleDone(8, <<10>>)
    /\ \A e \in Engines : \E r \in Results : r.engine = e /\ r.len = 2
    /\ <<2, 0>> \in gh.exp
    /\ \A e \in gh.exp : e[2] = 0

\* The program accepts the empty string: the reference search finds an
\* accepting path on the empty text.
AcceptsEmpty(is) == RefFrom(is, <<>>, 0, 0, {}) # None

\* C24: on the empty text with start 0, every program that accepts the
\* empty string is matched by both engines, with every buffer, and slots 0
\* and 1 are both 0: the closure at the end-of-text position is evaluated
\* before the engines halt.
C24_EmptyTextMatched ==
    (Done /\ text = <<>> /\ AcceptsEmpty(insts)) =>
        \A r \in Results :
            r.matched /\ (r.len > 0 => r.caps[1] = 0 /\ r.caps[2] = 0)

\* Both engines finished on the empty text for (a*)*, whose closure at
\* offset 0 passes through an epsilon cycle, with the full buffer; the NFA
\* made one round of its loop and the backtracker expanded instructions
\* at offset 0.
C24_Witness ==
    /\ Done /\ text = <<>> /\ pid = 11
    /\ AcceptsEmpty(insts)
    /\ \A e \in Engines : \E r \in Results : r.engine = e /\ r.len = 4
    /\ gh.nexp > 0
    /\ \A e \in gh.exp : e[2] = 0

\* ---------------------------------------------------- prefix extraction
\* The compiler's output for two more expressions.
ExtractShapes == <<
    \* 1: (?:a*)+b, where the Split that closes the + loop targets the
    \* Split that opens the * loop
    <<ISave(0), ISplit(2, 4), A, IJump(1), ISplit(1, 5), B, ISave(1),
      IMatch>>,
    \* 2: a|(?:b|.), where the second Split has a literal and a class as
    \* its branches
    <<ISave(0), ISplit(2, 4), A, IJump(8), ISplit(5, 7), B, IJump(8), Dot,
      ISave(1), IMatch>>
>>

\* The programs handed to Program::new: every well-formed program Save(0),
\* body, Save(1), Match with a body of at most MaxBody instructions out of
\* the literals a and b, Jump and Split with every target in [0, n); the
\* programs of the catalogue and of the examples; (?:a*)+b and a|(?:b|.).
ExtractPrograms ==
    LET body(n) == {A, B} \cup {IJump(t) : t \in 0..(n - 1)}
                   \cup {ISplit(x, y) : x, y \in 0..(n - 1)}
    IN {<<ISave(0)>> \o b \o <<ISave(1), IMatch>> :
            b \in UNION {[1..l -> body(l + 3)] : l \in 0..MaxBody}}
       \cup {Catalogue[i] : i \in 1..Len(Catalogue)}
       \cup {Examples[i] : i \in 1..Len(Examples)}
       \cup {ExtractShapes[1], ExtractShapes[2]}

InitExtract ==
    /\ ex \in {[NoExtract EXCEPT !.insts = p] : p \in ExtractPrograms}
    /\ ox = NoMatches
    /\ ip = "extract"
    /\ EngineUnused
    /\ px = NoCall
    /\ sc = NoStale
    /\ fx = NoFind
    /\ cx = NoCursor
    /\ pl = NoPool

\* Program::new line 189: prog.find_prefixes().  A walk that never ends
\* leaves the call without a return: done = FALSE.
ExtractCall ==
    /\ ip = "extract"
    /\ ~ex.called
    /\ LET r == find_prefixes_loop(ex.insts, 1, <<>>, 1)
           literal == is_literal(InstAt(ex.insts, 1))
       IN ex' = [ex EXCEPT
                    !.called = TRUE,
                    !.done = literal \/ r.done,
                    !.prefixes = Program_find_prefixes(ex.insts),
                    !.seen = IF literal THEN 1 ELSE r.seen,
                    !.gaveup = ~literal /\ r.gaveup]
    /\ UNCHANGED ox
    /\ UNCHANGED <<px, fx, cx, pl, sc, gh, pid, text, start, k, ip, caps,
                   results, nfa_threads, backtrack, q, inp, matched, ti, m,
                   bat, spc, sat>>

SpecExtract == InitExtract /\ [][ExtractCall]_vars

\* C25: prefix extraction at program construction terminates on every
\* well-formed program, also when a Split's target is an earlier Split.
C25_ExtractionTerminates == ex.called => ex.done

\* The texts on which the extracted prefixes are compared with the matches.
ExtractTexts ==
    UNION {[1..n -> {97, 98}] : n \in 0..MaxExtractLen}

\* The text t begins with p.
BeginsWith(t, p) == Len(p) <= Len(t) /\ SubSeq(t, 1, Len(p)) = p

\* C26: when prefix extraction returns, every listed prefix is non-empty
\* and every text that the program matches from its first byte begins with
\* a listed prefix whenever the list is non-empty; a walk that met an
\* instruction shape it does not handle leaves the list empty, not the
\* prefixes it had collected.
C26_PrefixesNecessary ==
    (ex.called /\ ex.done) =>
        /\ \A i \in 1..Len(ex.prefixes) : Len(ex.prefixes[i]) > 0
        /\ ex.prefixes # <<>> =>
               \A t \in ExtractTexts :
                   RefFrom(ex.insts, t, 0, 0, {}) # None =>
                       \E i \in 1..Len(ex.prefixes) :
                           BeginsWith(t, ex.prefixes[i])
        /\ ex.gaveup => ex.prefixes = <<>>

\* Extraction returned on a|(?:b|.) after it had collected the prefix a and
\* then met the class: the list is empty, and the program matches b.
C26_Witness ==
    /\ ex.called /\ ex.done
    /\ ex.insts = ExtractShapes[2]
    /\ ex.gaveup /\ ex.seen = 1
    /\ ex.prefixes = <<>>
    /\ RefFrom(ex.insts, <<98>>, 0, 0, {}) # None

\* ------------------------------------------------- the epsilon closure
Pcs == 0..(Len(insts) - 1)

\* The calls add(list, pc, thread_caps) that the engine is about to make:
\* Nfa::exec line 120 on clist and caps, with the cursor after the prefix
\* jump, and Nfa::step lines 164 and 169 on nlist and the caps of the
\* thread of clist in turn, at the pc after the instruction that consumed
\* the character.  The call of Nfa::exec is also looked at as entered at
\* every other pc, as its nested calls are.
AddCalls ==
    IF ip = "nfa_loop"
        THEN {[l |-> q.clist, tc |-> caps, pcs |-> Pcs,
               inp |-> IF q.clist.size = 0 /\ Len(prog.prefixes) > 0
                           THEN advance_prefix(text, inp, prog.prefixes).inp
                           ELSE inp]}
    ELSE IF ip = "nfa_step" /\ ti < q.clist.size
        THEN LET t == q.clist.queue[ti + 1]
             IN IF Nfa_step_consumes(InstAt(insts, t.pc), inp.cur)
                    THEN {[l |-> q.nlist, tc |-> t.caps, pcs |-> {t.pc + 1},
                           inp |-> inp]}
                    ELSE {}
    ELSE {}

\* What add returns when entered at pc with the list, the cursor and the
\* captures of the call c.
AddFrom(c, pc) == Nfa_add(prog.insts, c.inp, c.l, pc, c.tc)

\* C27: add(nlist, pc, thread_caps) leaves thread_caps unchanged: every
\* slot holds on return the value it held at the call, so the y branch of a
\* Split is explored with the captures that held when the Split was
\* reached.
C27_AddLeavesCaps ==
    \A c \in AddCalls : \A pc \in c.pcs : AddFrom(c, pc).tc = c.tc

\* The NFA is about to close (?:(a)|b)* from pc 0 with a buffer of four
\* slots: the thread of a, in the x branch of the inner Split, gets the
\* cursor's offset in slot 2, the thread of b in the y branch gets the
\* None that held at the Split.
C27_Witness ==
    /\ ip = "nfa_loop" /\ pid = 14 /\ Len(caps) = 4
    /\ \E c \in AddCalls :
           LET r == AddFrom(c, 0)
           IN \E i, j \in 1..r.l.size :
                  /\ r.l.queue[i].pc = 4 /\ r.l.queue[i].caps[3] = c.inp.nbo
                  /\ r.l.queue[j].pc = 7 /\ r.l.queue[j].caps[3] = None

\* The pcs inserted into the list since it was last emptied: add writes
\* them to dense[0..size], empty sets size to 0.
Inserted(l) == {l.queue[i].pc : i \in 1..l.size}

\* The thread lists of the run in progress, and those the calls of add
\* the engine is about to make leave.
ThreadLists ==
    (IF q = NoScratch THEN {} ELSE {q.clist, q.nlist})
    \cup UNION {{AddFrom(c, pc).l : pc \in c.pcs} : c \in AddCalls}

\* C28: each thread list holds pairwise distinct pcs in dense[0..size],
\* size is at most the number of instructions, and contains(pc) is true
\* exactly for the pcs inserted since the list was last emptied, whatever
\* sparse and dense still hold from before.
C28_SparseSet ==
    \A l \in ThreadLists :
        /\ l.size <= Len(insts)
        /\ \A i, j \in 1..l.size : l.queue[i].pc = l.queue[j].pc => i = j
        /\ \A pc \in Pcs : Threads_contains(l, pc) <=> pc \in Inserted(l)

\* In a run on a used scratch object nlist holds a thread, and for a pc
\* that was not inserted sparse still points below size, at an entry of
\* dense that holds another pc.
C28_Witness ==
    /\ ip = "nfa_step" /\ sc.on /\ k = 3
    /\ q.nlist.size > 0
    /\ \E pc \in Pcs :
           /\ pc \notin Inserted(q.nlist)
           /\ q.nlist.sparse[pc + 1] < q.nlist.size
           /\ q.nlist.queue[q.nlist.sparse[pc + 1] + 1].pc # pc

\* C29: add terminates on every program, those with an epsilon cycle of
\* Jump and Split included, and its recursion is never deeper than the
\* number of instructions: the calls on the stack, the last one apart, are
\* at pairwise distinct pcs, each pc being entered once per thread list.
C29_AddDepthBounded ==
    \A c \in AddCalls : \A pc \in c.pcs :
        LET st == AddFrom(c, pc).st
        IN /\ Len(st) <= Len(insts)
           /\ \A i, j \in 1..(Len(st) - 1) : st[i] = st[j] => i = j

\* The NFA is about to close (a*)* from pc 0 on an empty list: the calls
\* go round the epsilon cycle 1, 2, 3, 6, 7 and the call that comes back to
\* pc 1, the seventh on the stack, returns at once.
C29_Witness ==
    /\ ip = "nfa_loop" /\ pid = 11 /\ q.clist.size = 0
    /\ \E c \in AddCalls : AddFrom(c, 0).st = <<0, 1, 2, 3, 6, 7, 1>>

\* ------------------------------------------- the deferred right branch
\* The SplitNext jobs on the stack.
SplitNextJobs == {i \in 1..Len(m.jobs) : m.jobs[i].kind = "SplitNext"}

\* C30: when the SplitNext job of a Split is on top of the stack, about to
\* be popped, every capture slot holds the value it held when that Split
\* was executed: the SaveRestore jobs pushed while the left branch was
\* explored have all been popped and applied.
C30_RightBranchCaps ==
    (ip = "bt_pop" /\ m # NoScratch) =>
        /\ Cardinality(SplitNextJobs) = Len(gh.snaps)
        /\ (Len(m.jobs) \in SplitNextJobs) => caps = gh.snaps[Len(gh.snaps)]

\* The SplitNext job of (?:(a)|b)* is about to be popped with a buffer of
\* four slots in which group 1 holds the a matched by an earlier round of
\* the loop: the left branch saved slot 2 again and failed, and the
\* restore gave the earlier offset back.
C30_Witness ==
    /\ ip = "bt_pop" /\ pid = 14 /\ Len(caps) = 4
    /\ Len(m.jobs) \in SplitNextJobs
    /\ caps[3] # None /\ caps[4] # None /\ caps[3] < caps[4]
    /\ caps = gh.snaps[Len(gh.snaps)]
    /\ <<3, caps[4]>> \in gh.exp

\* ------------------------------------------------------- the job stack
\* The (pc, byte position) pairs of the run: every instruction at every
\* byte offset of the text, the end included.
Pairs == Len(insts) * (Len(text) + 1)

\* C31 as stated: at every point of a backtracker run the number of jobs on
\* the stack is at most the number of (pc, byte position) pairs that are
\* not yet in the visited set.
C31_JobsWithinUnvisited ==
    InBtRun => Len(m.jobs) <= Pairs - Cardinality(m.visited)

\* C31, amended: at every point of a backtracker run the number of jobs on
\* the stack is at most the number of pairs that are in the visited set,
\* which is at most the number of pairs.
C31_JobsWithinVisited ==
    InBtRun =>
        /\ Len(m.jobs) <= Cardinality(m.visited)
        /\ Cardinality(m.visited) <= Pairs

\* A run on a text of two characters or more holds jobs of the three kinds
\* on its stack, one of them for an offset after the start of the text.
C31_Witness ==
    /\ InBtRun /\ Len(text) >= 2
    /\ {m.jobs[i].kind : i \in 1..Len(m.jobs)}
           = {"Inst", "SaveRestore", "SplitNext"}
    /\ \E i \in 1..Len(m.jobs) : m.jobs[i].at.pos > 0

\* ------------------------------------- range lookup and empty looks
\* The code points that bound the intervals, in increasing order: newline,
\* A, B, a, b, e-acute, the euro sign.
RangePoints == <<10, 65, 66, 97, 98, 233, 8364>>

\* The intervals marked on RangePoints from point i on: "lo" opens an
\* interval, "in" continues it, "out" is outside every interval.
RECURSIVE RangesFrom(_, _)
RangesFrom(f, i) ==
    IF i > Len(RangePoints) THEN <<>>
    ELSE IF f[i] # "lo" THEN RangesFrom(f, i + 1)
    ELSE LET j == CHOOSE t \in i..Len(RangePoints) :
                      /\ \A u \in (i + 1)..t : f[u] = "in"
                      /\ (t = Len(RangePoints) \/ f[t + 1] # "in")
         IN <<<<RangePoints[i], RangePoints[j]>>>> \o RangesFrom(f, j + 1)

\* Every sorted list of at most MaxRanges disjoint inclusive intervals with
\* their ends in RangePoints, as from_class leaves it in CharRanges.ranges.
RangeLists ==
    LET marks == {f \in [1..Len(RangePoints) -> {"out", "lo", "in"}] :
                     /\ f[1] # "in"
                     /\ \A i \in 2..Len(RangePoints) :
                            f[i] = "in" => f[i - 1] # "out"
                     /\ Cardinality({i \in 1..Len(RangePoints) :
                                         f[i] = "lo"}) <= MaxRanges}
    IN {RangesFrom(f, 1) : f \in marks}

\* The characters looked up: the points, C and c between them, and the
\* absent sentinel.
RangeChars == {RangePoints[i] : i \in 1..Len(RangePoints)} \cup {67, 99, Absent}

\* The characters on either side of an empty look: newline, space, 0, _,
\* a, e-acute and the absent sentinel.
LookChars == {10, 32, 48, 95, 97, 233, Absent}

LookKinds ==
    {"StartLine", "EndLine", "StartText", "EndText", "WordBoundary",
     "NotWordBoundary"}

InitMatches ==
    /\ ox \in {[NoMatches EXCEPT !.op = "ranges", !.ranges = r, !.casei = b,
                                 !.c = c] :
                   r \in RangeLists, b \in BOOLEAN, c \in RangeChars}
              \cup {[NoMatches EXCEPT !.op = "look", !.c1 = c1, !.c2 = c2] :
                        c1 \in LookChars, c2 \in LookChars}
    /\ ip = "matches"
    /\ EngineUnused
    /\ px = NoCall
    /\ sc = NoStale
    /\ fx = NoFind
    /\ cx = NoCursor
    /\ pl = NoPool
    /\ ex = NoExtract

MatchesUnchanged ==
    UNCHANGED <<px, fx, cx, pl, ex, sc, gh, pid, text, start, k, ip, caps,
                results, nfa_threads, backtrack, q, inp, matched, ti, m, bat,
                spc, sat>>

\* Ranges(ref inst) in Nfa::step and Backtrack::step: inst.matches(c); look
\* also records the literals Char(ref inst) matches c with.
RangesCall ==
    /\ ox.op = "ranges" /\ ~ox.called
    /\ ox' = [ox EXCEPT
                 !.called = TRUE,
                 !.out = CharRanges_matches(
                             IRanges(ox.ranges, ox.casei), ox.c),
                 !.look = {p \in RangeChars \ {Absent} :
                              OneChar_matches(IChar(p, ox.casei), ox.c)}]
    /\ MatchesUnchanged

\* EmptyLook(ref inst) in Nfa::add and Backtrack::step: inst.matches(c1, c2)
\* for each LookInst.
LookCall ==
    /\ ox.op = "look" /\ ~ox.called
    /\ ox' = [ox EXCEPT
                 !.called = TRUE,
                 !.look = [kind \in LookKinds |->
                              LookInst_matches(kind, ox.c1, ox.c2)]]
    /\ MatchesUnchanged

NextMatches == RangesCall \/ LookCall

SpecMatches == InitMatches /\ [][NextMatches]_vars

\* The indexes of the intervals that hold c.
Holding(ranges, c) ==
    {i \in 0..(Len(ranges) - 1) :
        ranges[i + 1][1] <= c /\ c <= ranges[i + 1][2]}

\* C32: on a sorted list of disjoint inclusive intervals the lookup of c,
\* case-folded first when case_insensitive, returns the index of the
\* interval that holds it, and None when no interval does; it returns None
\* for the absent sentinel, and no literal matches the sentinel either.
C32_RangeLookup ==
    (ox.called /\ ox.op = "ranges") =>
        LET c == IF ox.casei /\ ox.c >= 65 /\ ox.c <= 90
                     THEN ox.c + 32 ELSE ox.c
            held == Holding(ox.ranges, c)
        IN /\ held = {} => ox.out = None
           /\ held # {} => ox.out \in held
           /\ ox.c = Absent => (ox.out = None /\ ox.look = {})

\* A case-insensitive lookup of B in a list of five intervals found the
\* fifth, past the four that the linear probe looks at.
C32_Witness ==
    /\ ox.called /\ ox.op = "ranges"
    /\ ox.casei /\ ox.c = 66
    /\ Len(ox.ranges) = 5
    /\ ox.out = 4

\* The word characters among LookChars.
WordChars == {48, 95, 97, 233}

\* C33: for every pair of a preceding and a current character, the absent
\* sentinel included, StartLine holds iff preceding is absent or newline,
\* EndLine iff current is absent or newline, StartText iff preceding is
\* absent, EndText iff current is absent, WordBoundary iff exactly one of
\* the two is a word character, NotWordBoundary iff WordBoundary does not;
\* absent is not a word character.
C33_LookSemantics ==
    (ox.called /\ ox.op = "look") =>
        LET w1 == ox.c1 \in WordChars
            w2 == ox.c2 \in WordChars
        IN /\ ox.look["StartLine"] <=> (ox.c1 = Absent \/ ox.c1 = 10)
           /\ ox.look["EndLine"] <=> (ox.c2 = Absent \/ ox.c2 = 10)
           /\ ox.look["StartText"] <=> ox.c1 = Absent
           /\ ox.look["EndText"] <=> ox.c2 = Absent
           /\ ox.look["WordBoundary"] <=> (w1 # w2)
           /\ ox.look["NotWordBoundary"] <=> (w1 = w2)
           /\ ox.look["WordBoundary"] # ox.look["NotWordBoundary"]

\* The looks were evaluated at the end of a text that ends in a word
\* character: a word boundary, the end of the text and of a line.
C33_Witness ==
    /\ ox.called /\ ox.op = "look"
    /\ ox.c1 = 97 /\ ox.c2 = Absent
    /\ ox.look["WordBoundary"] /\ ox.look["EndText"] /\ ox.look["EndLine"]
    /\ ~ox.look["NotWordBoundary"] /\ ~ox.look["StartLine"]

\* ------------------------------------------ the pool's critical section
\* C34: the pool's mutex is held only for the pop or the push: the factory
\* makes a new scratch object only in a step of a thread that does not hold
\* the mutex.
C34_CreateOutsideLock ==
    [][pl'.made > pl.made => pl.lock = 0]_vars

\* C35: every scratch object on a pool's stack is in the cleared state: both
\* thread lists of size 0, the job stack and the visited set empty.
C35_StackCleared ==
    /\ \A i \in 1..Len(nfa_threads) :
           nfa_threads[i].clist.size = 0 /\ nfa_threads[i].nlist.size = 0
    /\ \A i \in 1..Len(backtrack) :
           backtrack[i].jobs = <<>> /\ backtrack[i].visited = {}

\* C35, amended: a scratch object is cleared by the run that checks it out,
\* before the run uses it: the NFA enters its loop with both thread lists of
\* size 0, the backtracker starts with no job and no visited pair.
C35_ClearedAtCheckout ==
    [][/\ (ip = "idle" /\ ip' = "nfa_loop") =>
              q'.clist.size = 0 /\ q'.nlist.size = 0
       /\ (ip = "idle" /\ ip' = "bt_outer") =>
              m'.jobs = <<>> /\ m'.visited = {}]_vars

\* The third backtracker run has checked out, cleared, the one object that
\* the two matching runs before it used and put back.
C35_Witness ==
    /\ sc.on /\ ip = "bt_outer" /\ k = 3
    /\ results[1].matched /\ results[2].matched
    /\ gh.made_bt = 1 /\ backtrack = <<>>
    /\ m.jobs = <<>> /\ m.visited = {}

====
